---- MODULE Spec2Model ----
(***************************************************************************)
(* Deployment pipeline of app-creator: the bounded retry loop of           *)
(* AutomatedDeploymentPipeline (scripts/automated_deployment_pipeline.py)  *)
(* with the stages it drives: publish (GitHubDeployer), sandbox creation   *)
(* and polling (ExpoSnackAPI), error analysis (ErrorAnalyzer) and patching *)
(* (SmartComponentGenerator).                                              *)
(*                                                                         *)
(* Text is modelled at lexeme granularity: a message is a sequence of      *)
(* tokens, each a word or a quoted string, and a quoted module path is a   *)
(* sequence of path segments ('./Header' is <<".", "Header">>).            *)
(***************************************************************************)
EXTENDS Integers, Sequences, FiniteSets, TLC

\* ------------------------------------------------------------------------
\* Bounds of the model
\* ------------------------------------------------------------------------
MaxAttempts == 3
MaxProjects == 2
MaxBatchAttempts == 2
MaxPollTime == 25
MaxErrors == 3
MaxApplications == 2

\* ------------------------------------------------------------------------
\* Program constants
\* ------------------------------------------------------------------------
PollTimeout == 60
PollSleep == 5
DefaultMaxRetryAttempts == 3

\* ------------------------------------------------------------------------
\* Text: tokens, messages, module paths
\* ------------------------------------------------------------------------
NoPath == <<>>

W(w) == [kind |-> "word", text |-> w, path |-> NoPath]

QT(p) == [kind |-> "quoted", text |-> "", path |-> p]

\* str.lower() on the lexemes that occur in the patterns and the messages
Lower(w) ==
    CASE w = "Unable" -> "unable"
      [] w = "Module" -> "module"
      [] w = "Error:" -> "error:"
      [] w = "Can't" -> "can't"
      [] w = "Cannot" -> "cannot"
      [] w = "SyntaxError:" -> "syntaxerror:"
      [] w = "Import" -> "import"
      [] w = "Failed" -> "failed"
      [] w = "Navigation" -> "navigation"
      [] w = "Container" -> "container"
      [] w = "createStackNavigator" -> "createstacknavigator"
      [] w = "Unexpected" -> "unexpected"
      [] w = "Parse" -> "parse"
      [] w = "Package" -> "package"
      [] w = "Deployment" -> "deployment"
      [] w = "Snack:" -> "snack:"
      [] w = "Snack" -> "snack"
      [] OTHER -> w

\* Pattern elements: a literal lexeme, the group ['"]([^'"]+)['"], .* and (.+)
L(w) == [kind |-> "lit", text |-> w]

Q == [kind |-> "quoted", text |-> ""]

ANY == [kind |-> "any", text |-> ""]

REST == [kind |-> "rest", text |-> ""]

MISSING_MODULE == "missing_module"
MISSING_COMPONENT == "missing_component"
IMPORT_ERROR == "import_error"
SYNTAX_ERROR == "syntax_error"
NAVIGATION_ERROR == "navigation_error"
DEPENDENCY_ERROR == "dependency_error"
CONFIGURATION_ERROR == "configuration_error"
UNKNOWN_ERROR == "unknown_error"

\* ErrorParser.error_patterns: the categories in dictionary order, each
\* with its patterns in list order
error_patterns ==
    << [type |-> MISSING_MODULE, patterns |-> <<
          << L("Unable"), L("to"), L("resolve"), L("module"), Q >>,
          << L("Module"), L("not"), L("found:"), L("Error:"), L("Can't"), L("resolve"), Q >>,
          << L("Cannot"), L("resolve"), L("dependency"), Q >> >>],
       [type |-> IMPORT_ERROR, patterns |-> <<
          << L("SyntaxError:"), L("Cannot"), L("use"), L("import"), L("statement"),
             L("outside"), L("a"), L("module") >>,
          << L("Import"), L("error:"), REST >>,
          << L("Failed"), L("to"), L("import"), Q >> >>],
       [type |-> NAVIGATION_ERROR, patterns |-> <<
          << L("Navigation"), L("Container"), ANY, L("not"), L("found") >>,
          << L("@react-navigation"), ANY, L("not"), L("found") >>,
          << L("createStackNavigator"), ANY, L("not"), L("found") >>,
          << L("Navigation"), ANY, L("is"), L("not"), L("defined") >> >>],
       [type |-> SYNTAX_ERROR, patterns |-> <<
          << L("SyntaxError:"), REST >>,
          << L("Unexpected"), L("token"), REST >>,
          << L("Parse"), L("error:"), REST >> >>],
       [type |-> DEPENDENCY_ERROR, patterns |-> <<
          << L("Package"), Q, L("not"), L("found") >>,
          << L("Module"), Q, L("is"), L("not"), L("installed") >>,
          << L("Cannot"), L("find"), L("module"), Q >> >>] >>

\* re.match semantics of one pattern at token position j of the message
RECURSIVE MatchFrom(_, _, _, _)
MatchFrom(pat, msg, i, j) ==
    IF i > Len(pat) THEN TRUE
    ELSE CASE pat[i].kind = "lit" ->
                 /\ j <= Len(msg)
                 /\ msg[j].kind = "word"
                 /\ \/ msg[j].text = pat[i].text
                    \/ Lower(msg[j].text) = Lower(pat[i].text)
                 /\ MatchFrom(pat, msg, i + 1, j + 1)
           [] pat[i].kind = "quoted" ->
                 /\ j <= Len(msg)
                 /\ msg[j].kind = "quoted"
                 /\ msg[j].path # NoPath
                 /\ MatchFrom(pat, msg, i + 1, j + 1)
           [] pat[i].kind = "any" ->
                 \E k \in j..(Len(msg) + 1) : MatchFrom(pat, msg, i + 1, k)
           [] pat[i].kind = "rest" ->
                 \E k \in (j + 1)..(Len(msg) + 1) : MatchFrom(pat, msg, i + 1, k)

\* re.search(pattern, message, re.IGNORECASE) from token position s on: the
\* leftmost position where the pattern matches, 0 when there is none
RECURSIVE SearchFrom(_, _, _)
SearchFrom(pat, msg, s) ==
    IF s > Len(msg) + 1 THEN 0
    ELSE IF MatchFrom(pat, msg, 1, s) THEN s
    ELSE SearchFrom(pat, msg, s + 1)

Search(pat, msg) == SearchFrom(pat, msg, 1) # 0

\* match.group(1) of a pattern whose group is the quoted string: the quoted
\* token of the leftmost match
RECURSIVE QuotedIndex(_, _)
QuotedIndex(pat, i) ==
    IF i > Len(pat) THEN 0
    ELSE IF pat[i].kind = "quoted" THEN i ELSE QuotedIndex(pat, i + 1)

Group1(pat, msg) ==
    LET q == QuotedIndex(pat, 1)
    IN  IF q = 0 THEN NoPath ELSE msg[SearchFrom(pat, msg, 1) + q - 1].path

\* ------------------------------------------------------------------------
\* ParsedError and the classifier
\* ------------------------------------------------------------------------
NoFix == "None"

ParsedError(t, m, mod, fix, auto) ==
    [type |-> t, message |-> m, missing_module |-> mod,
     suggested_fix |-> fix, auto_fixable |-> auto]

\* str.startswith on a module path: './' and '../' are a first segment "."
\* or ".." followed by a separator, 'src/' a first segment "src" followed by one
StartsWithDir(p, d) == Len(p) >= 2 /\ p[1] = d

\* only './' and '../' taken as local: 'src/' paths treated as packages
_create_parsed_error_RelativeOnly(error_type, message, pat) ==
    IF error_type = MISSING_MODULE
    THEN LET missing_module == Group1(pat, message)
         IN  IF \/ StartsWithDir(missing_module, ".")
                \/ StartsWithDir(missing_module, "..")
             THEN ParsedError(MISSING_COMPONENT, message, missing_module,
                              "Create missing component", TRUE)
             ELSE ParsedError(DEPENDENCY_ERROR, message, missing_module,
                              "Add dependency", TRUE)
    ELSE IF error_type = NAVIGATION_ERROR
    THEN ParsedError(error_type, message, NoPath,
                     "Add React Navigation dependencies and setup", TRUE)
    ELSE IF error_type = SYNTAX_ERROR
    THEN ParsedError(error_type, message, NoPath, "Fix syntax errors in code", FALSE)
    ELSE ParsedError(error_type, message, NoPath, NoFix, FALSE)

_create_parsed_error(error_type, message, pat) ==
    IF error_type = MISSING_MODULE
    THEN LET missing_module == Group1(pat, message)
         IN  IF \/ StartsWithDir(missing_module, ".")
                \/ StartsWithDir(missing_module, "..")
                \/ StartsWithDir(missing_module, "src")
             THEN ParsedError(MISSING_COMPONENT, message, missing_module,
                              "Create missing component", TRUE)
             ELSE ParsedError(DEPENDENCY_ERROR, message, missing_module,
                              "Add dependency", TRUE)
    ELSE IF error_type = NAVIGATION_ERROR
    THEN ParsedError(error_type, message, NoPath,
                     "Add React Navigation dependencies and setup", TRUE)
    ELSE IF error_type = SYNTAX_ERROR
    THEN ParsedError(error_type, message, NoPath, "Fix syntax errors in code", FALSE)
    ELSE ParsedError(error_type, message, NoPath, NoFix, FALSE)

\* _parse_single_error: the loop over the categories c of error_patterns
\* and the patterns p of each, left at the first match
RECURSIVE TryPatterns(_, _, _)
TryPatterns(message, c, p) ==
    IF c > Len(error_patterns)
    THEN ParsedError(UNKNOWN_ERROR, message, NoPath, NoFix, FALSE)
    ELSE IF p > Len(error_patterns[c].patterns)
    THEN TryPatterns(message, c + 1, 1)
    ELSE IF Search(error_patterns[c].patterns[p], message)
    THEN _create_parsed_error(error_patterns[c].type, message, error_patterns[c].patterns[p])
    ELSE TryPatterns(message, c, p + 1)

\* the categories tried from the last one to the first one
RECURSIVE TryPatternsDown(_, _, _)
TryPatternsDown(message, c, p) ==
    IF c < 1
    THEN ParsedError(UNKNOWN_ERROR, message, NoPath, NoFix, FALSE)
    ELSE IF p > Len(error_patterns[c].patterns)
    THEN TryPatternsDown(message, c - 1, 1)
    ELSE IF Search(error_patterns[c].patterns[p], message)
    THEN _create_parsed_error(error_patterns[c].type, message, error_patterns[c].patterns[p])
    ELSE TryPatternsDown(message, c, p + 1)

_parse_single_error_LastCategoryWins(message) ==
    TryPatternsDown(message, Len(error_patterns), 1)

_parse_single_error(message) == TryPatterns(message, 1, 1)

\* the results appended in front: the list comes out in reverse input order
parse_errors_Reversed(error_messages) ==
    [i \in 1..Len(error_messages) |->
        _parse_single_error(error_messages[Len(error_messages) + 1 - i])]

parse_errors(error_messages) ==
    [i \in 1..Len(error_messages) |-> _parse_single_error(error_messages[i])]

\* ------------------------------------------------------------------------
\* Messages and raw error records the sandbox can report
\* ------------------------------------------------------------------------
\* A JSON null message (error.get('message', '') returns None for it)
NoneMsg == << [kind |-> "none", text |-> "", path |-> NoPath] >>

MsgRelative == << W("Unable"), W("to"), W("resolve"), W("module"), QT(<<".", "Header">>) >>

MsgKnownDep ==
    << W("Module"), W("not"), W("found:"), W("Error:"), W("Can't"), W("resolve"),
       QT(<<"@react-navigation", "native">>) >>

MsgBare == << W("Cannot"), W("find"), W("module"), QT(<<"react-native-maps">>) >>

MsgSyntax == << W("SyntaxError:"), W("Unexpected"), W("token"), QT(<<"}">>) >>

MsgRunning == << W("Running"), W("application") >>

MsgTimeout == << W("Deployment"), W("timeout") >>

MsgCheckException == << W("Error"), W("checking"), W("Snack:"), W("Connection"), W("refused") >>

MsgFetchFailed == << W("Failed"), W("to"), W("fetch"), W("Snack:"), W("500") >>

MsgParent ==
    << W("Cannot"), W("resolve"), W("dependency"), QT(<<"..", "utils", "helpers">>) >>

MsgSrc ==
    << W("Unable"), W("to"), W("resolve"), W("module"),
       QT(<<"src", "navigation", "AppNavigator.js">>) >>

MsgNavigation == << W("Navigation"), W("Container"), W("was"), W("not"), W("found") >>

\* matches an import error pattern and a syntax error pattern
MsgImportOutside ==
    << W("SyntaxError:"), W("Cannot"), W("use"), W("import"), W("statement"),
       W("outside"), W("a"), W("module") >>

\* matches a missing module pattern and an import error pattern
MsgImportUnresolved ==
    << W("Import"), W("error:"), W("Unable"), W("to"), W("resolve"), W("module"),
       QT(<<".", "Header">>) >>

\* matches a syntax error pattern and a dependency error pattern
MsgSyntaxBare ==
    << W("SyntaxError:"), W("Cannot"), W("find"), W("module"), QT(<<"lodash">>) >>

MsgUnexpectedToken == << W("SyntaxError:"), W("Unexpected"), W("token") >>

\* matches a navigation error pattern and a syntax error pattern
MsgSyntaxNavigation ==
    << W("SyntaxError:"), W("Navigation"), W("Container"), W("not"), W("found") >>

RawError(t, m) == [type |-> t, message |-> m]

Response(errs, logs) == [errors |-> errs, logs |-> logs]

EmptyResponse == Response(<<>>, <<>>)

\* the bodies of the status responses the sandbox host is taken to give
StatusResponses ==
    { EmptyResponse,
      Response(<<>>, << MsgRunning >>),
      Response(<< MsgRelative >>, <<>>),
      Response(<< MsgKnownDep >>, <<>>),
      Response(<< MsgBare >>, <<>>),
      Response(<< MsgSyntax >>, <<>>),
      Response(<< NoneMsg >>, <<>>),
      Response(<< MsgSyntax >>, << MsgRelative >>),
      Response(<< MsgRelative, MsgKnownDep >>, <<>>),
      Response(<< MsgRelative >>, << MsgRunning, MsgRelative >>) }

\* ExpoSnackAPI.check_snack_errors: env is the outcome of the status request
\*   "status_error"  the response status is not 200
\*   "exception"     the request or the decoding raises
\*   "ok"            status 200 with the response body data
check_snack_errors(env, data) ==
    IF env = "status_error"
    THEN [has_errors |-> TRUE, errors |-> << RawError("api_error", MsgFetchFailed) >>]
    ELSE IF env = "exception"
    THEN [has_errors |-> TRUE, errors |-> << RawError("exception", MsgCheckException) >>]
    ELSE LET compile == [i \in 1..Len(data.errors) |->
                            RawError("compilation_error", data.errors[i])]
             IsUnresolved(m) ==
                 Search(<< L("Unable"), L("to"), L("resolve"), L("module"), Q >>, m)
             logs == SelectSeq(data.logs, IsUnresolved)
             missing == [i \in 1..Len(logs) |-> RawError("missing_module", logs[i])]
             errors == compile \o missing
         IN  [has_errors |-> Len(errors) > 0, errors |-> errors]

\* ------------------------------------------------------------------------
\* ErrorAnalyzer
\* ------------------------------------------------------------------------
\* message.strip() on None raises AttributeError
AnalysisRaises(raw_errors) == \E i \in 1..Len(raw_errors) : raw_errors[i].message = NoneMsg

\* a step of the fix plan; the target is text: a quoted module path, the word
\* navigation_config, or the message of the error
FixStep(action, target, priority) == [action |-> action, target |-> target, priority |-> priority]

\* the sort key {"high": 3, "medium": 2, "low": 1}[x["priority"]]
PriorityKey(step) ==
    CASE step.priority = "high" -> 3
      [] step.priority = "medium" -> 2
      [] step.priority = "low" -> 1

\* the step the first loop of _generate_fix_plan appends for an auto-fixable error
AutoStep(error) ==
    IF error.type = MISSING_COMPONENT
    THEN FixStep("create_component", << QT(error.missing_module) >>, "high")
    ELSE IF error.type = DEPENDENCY_ERROR
    THEN FixStep("add_dependency", << QT(error.missing_module) >>, "medium")
    ELSE FixStep("fix_navigation", << W("navigation_config") >>, "high")

\* the first loop of _generate_fix_plan, over the auto-fixable errors: those
\* of another type than the three get no step
AutoSteps(errs) ==
    LET HasStep(e) == /\ e.auto_fixable
                      /\ e.type \in {MISSING_COMPONENT, DEPENDENCY_ERROR, NAVIGATION_ERROR}
        auto_fixable == SelectSeq(errs, HasStep)
    IN  [i \in 1..Len(auto_fixable) |-> AutoStep(auto_fixable[i])]

\* the second loop of _generate_fix_plan, over the errors that are not auto-fixable
ManualSteps(errs) ==
    LET IsManual(e) == ~e.auto_fixable
        manual_fixes == SelectSeq(errs, IsManual)
    IN  [i \in 1..Len(manual_fixes) |->
            FixStep("manual_review", manual_fixes[i].message, "low")]

\* the step x put into acc behind the steps whose key is at least as large
RECURSIVE InsertByKey(_, _, _)
InsertByKey(acc, x, j) ==
    IF j > Len(acc) THEN Append(acc, x)
    ELSE IF PriorityKey(acc[j]) < PriorityKey(x)
    THEN SubSeq(acc, 1, j - 1) \o << x >> \o SubSeq(acc, j, Len(acc))
    ELSE InsertByKey(acc, x, j + 1)

\* the steps of s, each moved behind the steps of s before it that have a key
\* at least as large: the ties stay in the order of s
RECURSIVE StableDescending(_, _, _)
StableDescending(s, i, acc) ==
    IF i > Len(s) THEN acc
    ELSE StableDescending(s, i + 1, InsertByKey(acc, s[i], 1))

\* ties come out in the opposite of their order in fix_steps
SortedByPriority_TiesReversed(fix_steps) ==
    LET r == [i \in 1..Len(fix_steps) |-> fix_steps[Len(fix_steps) + 1 - i]]
    IN  StableDescending(r, 1, <<>>)

\* sorted(fix_steps, key=..., reverse=True): descending by key, stable
SortedByPriority(fix_steps) == StableDescending(fix_steps, 1, <<>>)

_generate_fix_plan(errs) ==
    SortedByPriority(AutoSteps(errs) \o ManualSteps(errs))

analyze_deployment_errors(raw_errors) ==
    LET error_messages == [i \in 1..Len(raw_errors) |-> raw_errors[i].message]
        parsed_errors == parse_errors(error_messages)
    IN  [total_errors |-> Len(parsed_errors),
         auto_fixable_errors |->
             Cardinality({i \in 1..Len(parsed_errors) : parsed_errors[i].auto_fixable}),
         parsed_errors |-> parsed_errors,
         fix_plan |-> _generate_fix_plan(parsed_errors)]

\* ------------------------------------------------------------------------
\* SmartComponentGenerator
\* ------------------------------------------------------------------------
\* keys of the table dependency_versions of _add_missing_dependency
dependency_versions ==
    { <<"@react-navigation", "native">>, <<"@react-navigation", "stack">>,
      <<"react-native-screens">>, <<"react-native-safe-area-context">>,
      <<"react-native-vector-icons">>,
      <<"@react-native-async-storage", "async-storage">> }

FixKey(action, target) == [action |-> action, target |-> target]

EmptyDict == [k \in {} |-> FALSE]

Put(d, k, v) == [x \in (DOMAIN d) \cup {k} |-> IF x = k THEN v ELSE d[x]]

\* dict.update
Update(d, new) ==
    [x \in (DOMAIN d) \cup (DOMAIN new) |-> IF x \in DOMAIN new THEN new[x] ELSE d[x]]

\* fix_errors_with_components: io[i] tells whether the file operations of the
\* fix for the i-th error go through (no exception; package.json present)
RECURSIVE FixLoop(_, _, _, _)
FixLoop(parsed_errors, io, i, fix_results) ==
    IF i > Len(parsed_errors) THEN fix_results
    ELSE LET error == parsed_errors[i]
         IN  IF error.auto_fixable /\ error.type = MISSING_COMPONENT
             THEN FixLoop(parsed_errors, io, i + 1,
                          Put(fix_results, FixKey("create", error.missing_module), io[i]))
             ELSE IF error.auto_fixable /\ error.type = NAVIGATION_ERROR
             THEN FixLoop(parsed_errors, io, i + 1,
                          Put(fix_results, FixKey("fix_navigation", NoPath), io[i]))
             ELSE IF error.auto_fixable /\ error.type = DEPENDENCY_ERROR
             THEN FixLoop(parsed_errors, io, i + 1,
                          Put(fix_results, FixKey("add_dep", error.missing_module),
                              io[i] /\ error.missing_module \in dependency_versions))
             ELSE FixLoop(parsed_errors, io, i + 1, fix_results)

fix_errors_with_components(parsed_errors, io) == FixLoop(parsed_errors, io, 1, EmptyDict)

Successful(fixes) == Cardinality({k \in DOMAIN fixes : fixes[k]})

\* app_indicators of _detect_app_type, in dictionary order
app_indicators ==
    << [app_type |-> "calculator",
        indicators |-> {"calculator", "calc", "math", "number", "operation"}],
       [app_type |-> "todo",
        indicators |-> {"todo", "task", "list", "item", "complete"}],
       [app_type |-> "weather",
        indicators |-> {"weather", "forecast", "temperature", "location", "climate"}] >>

\* str.lower() of a file or component name, cut into its lexemes
LowerLexemes(name) ==
    CASE name = "Header" -> << "header" >>
      [] name = "Content" -> << "content" >>
      [] name = "Item" -> << "item" >>
      [] name = "TodoList" -> << "todo", "list" >>
      [] name = "WeatherIcon" -> << "weather", "icon" >>
      [] name = "Widget" -> << "widget" >>
      [] name = "App" -> << "app" >>
      [] OTHER -> << name >>

\* 'a in b' on lower-case names: a is a run of consecutive lexemes of b
IsInfix(a, b) ==
    \E k \in 0..(Len(b) - Len(a)) : \A j \in 1..Len(a) : b[k + j] = a[j]

\* component_templates: for each app type the template names in dictionary order
component_templates(app_type) ==
    CASE app_type = "calculator" -> << << "header" >>, << "content" >> >>
      [] app_type = "todo" -> << << "todo", "item" >>, << "todo", "list" >> >>
      [] app_type = "weather" -> << << "weather", "icon" >>, << "temperature" >> >>
      [] OTHER -> << >>

\* the text of a .js file: the template it is an instance of and the
\* component name the template is filled with. Two files are byte-identical
\* exactly when both are equal.
Content(template, name) == [template |-> template, name |-> name]

NoContent == Content(<< "none" >>, "")

GenericContent(component_name) == Content(<< "generic" >>, component_name)

\* the indicator words that occur in the fixed text of a template ('item'
\* occurs in 'alignItems')
TemplateWords(template) ==
    CASE template = << "calculator", "header" >> -> {"calculator", "calc", "item"}
      [] template = << "calculator", "content" >> -> {"calc", "number", "operation", "item"}
      [] template = << "todo", "todo", "item" >> -> {"todo", "item", "complete"}
      [] template = << "todo", "todo", "list" >> -> {}
      [] template = << "weather", "weather", "icon" >> -> {"weather", "item"}
      [] template = << "weather", "temperature" >> -> {"temperature", "item"}
      [] template = << "generic" >> -> {"item"}
      [] template = << "navigation" >> -> {"item"}
      [] template = << "app", "calculator" >> -> {"calculator", "calc"}
      [] template = << "app", "todo" >> -> {"todo"}
      [] template = << "app", "weather" >> -> {"weather"}
      [] OTHER -> {}

\* 'indicator in text' for a lower-case name
WordInName(indicator, name) ==
    \/ \E j \in 1..Len(LowerLexemes(name)) : LowerLexemes(name)[j] = indicator
    \/ indicator = "calc" /\ \E j \in 1..Len(LowerLexemes(name)) : LowerLexemes(name)[j] = "calculator"

\* 'indicator in content' for the lower-cased text of a file
WordInContent(indicator, content) ==
    \/ indicator \in TemplateWords(content.template)
    \/ WordInName(indicator, content.name)

\* a .js file of the project: its directory below the project, its name
\* without the extension, its text
JsFile(dir, name, content) == [dir |-> dir, name |-> name, content |-> content]

\* the loop over app_indicators for one file: the app type detected from the
\* file, "" when the loop ends without a return
RECURSIVE DetectInFile(_, _)
DetectInFile(file, k) ==
    IF k > Len(app_indicators) THEN ""
    ELSE IF \E indicator \in app_indicators[k].indicators :
                WordInContent(indicator, file.content)
    THEN app_indicators[k].app_type
    ELSE IF \E indicator \in app_indicators[k].indicators : WordInName(indicator, file.name)
    THEN app_indicators[k].app_type
    ELSE DetectInFile(file, k + 1)

\* _detect_app_type: js is the .js files of the project in the order of os.walk
RECURSIVE DetectFrom(_, _)
DetectFrom(js, i) ==
    IF i > Len(js) THEN "generic"
    ELSE IF DetectInFile(js[i], 1) # "" THEN DetectInFile(js[i], 1)
    ELSE DetectFrom(js, i + 1)

_detect_app_type(fs) == DetectFrom(fs.js, 1)

\* the loop over the templates of the app type, left at the first template
\* whose name contains the lower-case component name or is contained in it
RECURSIVE MatchTemplate(_, _, _)
MatchTemplate(component_name, app_type, t) ==
    LET templates == component_templates(app_type)
        name_lower == LowerLexemes(component_name)
    IN  IF t > Len(templates) THEN GenericContent(component_name)
        ELSE IF IsInfix(templates[t], name_lower) \/ IsInfix(name_lower, templates[t])
        THEN Content(<< app_type >> \o templates[t], component_name)
        ELSE MatchTemplate(component_name, app_type, t + 1)

_generate_component_content(component_name, app_type) ==
    MatchTemplate(component_name, app_type, 1)

\* open(component_file, 'w') and write: the file is replaced in place, a
\* new file comes last in the walk (src/ is walked after the project root)
WriteJs(js, file) ==
    IF \E i \in 1..Len(js) : js[i].dir = file.dir /\ js[i].name = file.name
    THEN [i \in 1..Len(js) |->
             IF js[i].dir = file.dir /\ js[i].name = file.name THEN file ELSE js[i]]
    ELSE Append(js, file)

\* _create_missing_component: io is "ok", or "oserror" when makedirs, open or
\* write raises; the result is the project after the call, the value
\* returned and the text written
_create_missing_component(fs, error, app_type, io) ==
    LET module_path == IF StartsWithDir(error.missing_module, ".") THEN Tail(error.missing_module)
                       ELSE IF StartsWithDir(error.missing_module, "..")
                       THEN Tail(error.missing_module)
                       ELSE IF StartsWithDir(error.missing_module, "src")
                       THEN Tail(error.missing_module)
                       ELSE error.missing_module
        component_name == module_path[Len(module_path)]
        component_dir == SubSeq(module_path, 1, Len(module_path) - 1)
        full_dir == IF component_dir # <<>>
                    THEN << "src" >> \o component_dir
                    ELSE << "src", "components" >>
        component_content == _generate_component_content(component_name, app_type)
    IN  IF io = "oserror"
        THEN [fs |-> fs, success |-> FALSE, written |-> NoContent]
        ELSE [fs |-> [fs EXCEPT !.js = WriteJs(@, JsFile(full_dir, component_name,
                                                         component_content))],
              success |-> TRUE,
              written |-> component_content]

\* the versions of the table dependency_versions
DependencyVersion(dependency) ==
    CASE dependency = <<"@react-navigation", "native">> -> "^6.0.0"
      [] dependency = <<"@react-navigation", "stack">> -> "^6.0.0"
      [] dependency = <<"react-native-screens">> -> "~3.22.0"
      [] dependency = <<"react-native-safe-area-context">> -> "4.6.3"
      [] dependency = <<"react-native-vector-icons">> -> "^10.0.0"
      [] dependency = <<"@react-native-async-storage", "async-storage">> -> "^1.19.0"

\* every known package pinned at "latest" when the table has no entry
_add_missing_dependency_AnyPackage(fs, dependency, io) ==
    IF io # "ok" THEN [fs |-> fs, success |-> FALSE]
    ELSE IF fs.package.exists
    THEN [fs |-> [fs EXCEPT !.package.dependencies =
                      Put(@, dependency,
                          IF dependency \in dependency_versions
                          THEN DependencyVersion(dependency) ELSE "latest")],
          success |-> TRUE]
    ELSE [fs |-> fs, success |-> FALSE]

\* _add_missing_dependency: io is "ok", or "oserror" or "manifest_error"
\* when reading, decoding or writing package.json raises
_add_missing_dependency(fs, dependency, io) ==
    IF io # "ok" THEN [fs |-> fs, success |-> FALSE]
    ELSE IF fs.package.exists /\ dependency \in dependency_versions
    THEN [fs |-> [fs EXCEPT !.package.dependencies =
                      Put(@, dependency, DependencyVersion(dependency))],
          success |-> TRUE]
    ELSE [fs |-> fs, success |-> FALSE]

\* nav_deps of _update_package_dependencies, in dictionary order
nav_deps ==
    << <<"@react-navigation", "native">>, <<"@react-navigation", "stack">>,
       <<"react-native-screens">>, <<"react-native-safe-area-context">> >>

\* dict.update(nav_deps) from the k-th entry on
RECURSIVE UpdateNavDeps(_, _)
UpdateNavDeps(deps, k) ==
    IF k > Len(nav_deps) THEN deps
    ELSE UpdateNavDeps(Put(deps, nav_deps[k], DependencyVersion(nav_deps[k])), k + 1)

\* _update_package_dependencies: every exception is swallowed and False returned
_update_package_dependencies(fs, io) ==
    IF io = "manifest_error" THEN [fs |-> fs, success |-> FALSE]
    ELSE IF fs.package.exists
    THEN [fs |-> [fs EXCEPT !.package.dependencies = UpdateNavDeps(@, 1)],
          success |-> TRUE]
    ELSE [fs |-> fs, success |-> FALSE]

NavigatorFile ==
    JsFile(<< "src", "navigation" >>, "AppNavigator",
           Content(<< "navigation" >>, "AppNavigator"))

HasNavigator(fs) ==
    \E i \in 1..Len(fs.js) :
        fs.js[i].dir = NavigatorFile.dir /\ fs.js[i].name = NavigatorFile.name

\* _fix_navigation_setup: io is "oserror" when makedirs, open or write of
\* AppNavigator.js raises, "manifest_error" when reading, decoding or writing
\* package.json raises inside _update_package_dependencies; the value
\* _update_package_dependencies returns is not read
_fix_navigation_setup(fs, io) ==
    IF io = "oserror" THEN [fs |-> fs, success |-> FALSE]
    ELSE LET created == IF HasNavigator(fs) THEN fs
                        ELSE [fs EXCEPT !.js = WriteJs(@, NavigatorFile)]
         IN  [fs |-> _update_package_dependencies(created, io).fs, success |-> TRUE]

\* ------------------------------------------------------------------------
\* GitHubDeployer and sandbox creation
\* ------------------------------------------------------------------------
Projects == << "CalculatorApp", "TodoApp", "WeatherApp" >>

\* project_name.lower()
LowerName(p) ==
    CASE p = "CalculatorApp" -> "calculatorapp"
      [] p = "TodoApp" -> "todoapp"
      [] p = "WeatherApp" -> "weatherapp"
      [] OTHER -> p

NoUrl == [host |-> "", owner |-> "", repo |-> ""]

\* https://github.com/balamir53/<project_name.lower()>.git
RepoUrl(project_name) ==
    [host |-> "github.com", owner |-> "balamir53", repo |-> LowerName(project_name)]

\* GitHubDeployer.deploy_to_github: env is what the git commands do
\*   "failed"      the project is missing or a command fails
\*   "no_changes"  git status reports nothing to commit
\*   "pushed"      commit, remote and push go through
deploy_to_github(project_name, env) ==
    IF env = "failed" THEN [success |-> FALSE, repository_url |-> NoUrl]
    ELSE IF env = "no_changes" THEN [success |-> TRUE, repository_url |-> NoUrl]
    ELSE [success |-> TRUE, repository_url |-> RepoUrl(project_name)]

SnackIds == {"snack-1"}

NoSnackUrl == [host |-> "", id |-> ""]

\* https://snack.expo.dev/<snack_id>
SnackUrl(snack_id) == [host |-> "snack.expo.dev", id |-> snack_id]

\* re.search(r'github\.com/([^/]+)/([^/]+)', github_url)
IsGithubUrl(url) == url.host = "github.com" /\ url.owner # "" /\ url.repo # ""

\* ExpoSnackAPI.create_snack_from_github: env is the outcome of the POST
\*   "created"       status 200, the response carries the id
\*   "status_error"  any other status
\*   "exception"     the request raises
create_snack_from_github(github_url, env, id) ==
    IF ~IsGithubUrl(github_url) THEN [success |-> FALSE, snack_id |-> "", url |-> NoSnackUrl]
    ELSE IF env = "created" THEN [success |-> TRUE, snack_id |-> id, url |-> SnackUrl(id)]
    ELSE [success |-> FALSE, snack_id |-> "", url |-> NoSnackUrl]

\* ------------------------------------------------------------------------
\* State of one batch run of AutomatedDeploymentPipeline
\* ------------------------------------------------------------------------
VARIABLES
    max_retry_attempts, \* self.max_retry_attempts
    projects,           \* the project directories of deploy_all_projects_with_auto_fix
    batch_pc,           \* position in deploy_all_projects_with_auto_fix
    project_idx,        \* index of the project the batch loop is at
    results,            \* results: project name -> DeploymentResult
    pc,                 \* position in deploy_project_with_auto_fix
    attempt,            \* the loop variable attempt
    result,             \* the DeploymentResult under construction
    errors,             \* raw errors returned by the last _check_deployment_errors
    elapsed,            \* time.time() - start_time in wait_for_deployment
    trace,              \* the stage calls of the current run, in call order
    an_pc,              \* position in a call of ErrorAnalyzer.analyze_deployment_errors
    an_errors,          \* its argument raw_errors
    an_report,          \* its locals and return value
    gen_pc,             \* position in the calls of SmartComponentGenerator
    gen_fs,             \* the project directory: .js files and package.json
    gen_error,          \* the ParsedError the generator is called with
    gen_log,            \* what each call of the generator wrote and returned
    pub_pc,             \* position in a call of GitHubDeployer.deploy_to_github
    pub_env,            \* the project directory, its git state and the hosting side
    pub_log,            \* the commands the call has run, with their outcome
    pub_result,         \* the result_info the call returns
    fetch_pc,           \* position in the file fetch of create_snack_from_github
    fetch_repo,         \* the published repository as the hosting API serves it
    fetch_files,        \* payload["files"]
    wait_pc,            \* position in a call of ExpoSnackAPI.wait_for_deployment
    wait_clock,         \* time.time() - start_time as the injected clock reads it
    wait_polls,         \* the status requests issued so far
    wait_issued_at,     \* what the clock read when the last one was issued
    wait_inflight,      \* the status requests issued and not yet answered
    wait_result,        \* the return value of wait_for_deployment
    wf_pc,              \* position of workflow.invoke in build_react_native_app
    wf_next,            \* the nodes the graph runs in its next step
    wf_state,           \* the ReactNativeBuilderState of the graph
    wf_log,             \* the node executions of the current invoke, in step order
    wf_steps,           \* the steps the graph has taken in the current invoke
    rn_projects,        \* rn_projects: project id -> workflow result
    rn_request,         \* the build request being served
    rn_response,        \* the last HTTP response of the builder router
    conversations,      \* conversations: conversation id -> ConversationState
    chat_ok,            \* successful chat requests per id since creation or clear
    chat_response,      \* the last HTTP response of the chat router
    mon_pc,             \* position in deploy_project_with_monitoring
    mon_attempt,        \* its loop variable attempt
    mon_result,         \* its DeploymentResult under construction
    mon_errors,         \* raw errors returned by its last _check_deployment_errors
    mon_trace,          \* its stage calls, in call order
    mon_metrics         \* deployment_logger.deployment_metrics[project_name]

\* the variables of the calls of the analyzer and the generator on their own
unit_vars == << an_pc, an_errors, an_report, gen_pc, gen_fs, gen_error, gen_log >>

\* the variables of the calls of the publisher on its own
publish_vars == << pub_pc, pub_env, pub_log, pub_result >>

\* the variables of the file fetch of sandbox creation on its own
fetch_vars == << fetch_pc, fetch_repo, fetch_files >>

\* the variables of a call of wait_for_deployment on its own
wait_vars == << wait_pc, wait_clock, wait_polls, wait_issued_at, wait_inflight, wait_result >>

\* the variables of the app-build workflow and the project registry
build_vars == << wf_pc, wf_next, wf_state, wf_log, wf_steps,
                rn_projects, rn_request, rn_response >>

\* the variables of the chat router
chat_vars == << conversations, chat_ok, chat_response >>

\* the variables of the monitored orchestrator
mon_vars == << mon_pc, mon_attempt, mon_result, mon_errors, mon_trace, mon_metrics >>

service_vars == << wait_vars, build_vars, chat_vars, mon_vars >>

stage_vars == << publish_vars, fetch_vars, service_vars >>

vars == << max_retry_attempts, projects, batch_pc, project_idx, results,
           pc, attempt, result, errors, elapsed, trace,
           an_pc, an_errors, an_report, gen_pc, gen_fs, gen_error, gen_log,
           pub_pc, pub_env, pub_log, pub_result,
           fetch_pc, fetch_repo, fetch_files,
           wait_pc, wait_clock, wait_polls, wait_issued_at, wait_inflight, wait_result,
           wf_pc, wf_next, wf_state, wf_log, wf_steps,
           rn_projects, rn_request, rn_response,
           conversations, chat_ok, chat_response,
           mon_pc, mon_attempt, mon_result, mon_errors, mon_trace, mon_metrics >>

\* DeploymentResult(success=False, errors=[], fixes_applied={})
NewResult ==
    [success |-> FALSE, github_url |-> NoUrl, snack_url |-> NoSnackUrl, snack_id |-> "",
     errors |-> <<>>, fixes_applied |-> EmptyDict, attempts |-> 0]

Call(stage, k, outcome) == [stage |-> stage, attempt |-> k, outcome |-> outcome]

project == projects[project_idx]

NoReport == [parsed_errors |-> <<>>, fix_plan |-> <<>>, total_errors |-> 0,
             auto_fixable_errors |-> 0]

NoFs == [js |-> <<>>, package |-> [exists |-> FALSE, dependencies |-> EmptyDict]]

\* no call of the analyzer on its own is under way
AnalyzerIdle ==
    /\ an_pc = "idle"
    /\ an_errors = <<>>
    /\ an_report = NoReport

\* no call of the generator on its own is under way
GeneratorIdle ==
    /\ gen_pc = "idle"
    /\ gen_fs = NoFs
    /\ gen_error = ParsedError(UNKNOWN_ERROR, <<>>, NoPath, NoFix, FALSE)
    /\ gen_log = <<>>

UnitIdle == AnalyzerIdle /\ GeneratorIdle

NoPublishEnv ==
    [project |-> "", force |-> FALSE, exists |-> FALSE, has_git |-> FALSE,
     dirty |-> FALSE, remote |-> NoUrl, repo_exists |-> FALSE]

NoPublishResult == [success |-> FALSE, repository_url |-> NoUrl, command |-> "", message |-> ""]

\* no call of the publisher on its own is under way
PublishIdle ==
    /\ pub_pc = "idle"
    /\ pub_env = NoPublishEnv
    /\ pub_log = <<>>
    /\ pub_result = NoPublishResult

NoRepo == [files |-> {}, failing |-> {}, raises |-> FALSE]

\* no file fetch on its own is under way
FetchIdle ==
    /\ fetch_pc = "idle"
    /\ fetch_repo = NoRepo
    /\ fetch_files = EmptyDict

NoWaitResult == [success |-> FALSE, errors |-> <<>>]

\* no call of wait_for_deployment on its own is under way
WaitIdle ==
    /\ wait_pc = "idle"
    /\ wait_clock = 0
    /\ wait_polls = 0
    /\ wait_issued_at = 0
    /\ wait_inflight = 0
    /\ wait_result = NoWaitResult

\* errors tells whether the list state["errors"] has an entry
NoWfState == [current_step |-> "", retry_count |-> 0, max_retries |-> 0, errors |-> FALSE]

NoRequest == [n |-> 0, project_id |-> ""]

NoResponse == [n |-> 0, op |-> "", id |-> "", status |-> 0]

\* the builder router is imported and serves no request
BuildIdle ==
    /\ wf_pc = "idle"
    /\ wf_next = {}
    /\ wf_state = NoWfState
    /\ wf_log = <<>>
    /\ wf_steps = 0
    /\ rn_projects = EmptyDict
    /\ rn_request = NoRequest
    /\ rn_response = NoResponse

NoChatAnswer == [n |-> 0, op |-> "", id |-> "", status |-> 0, message |-> ""]

\* the chat router is imported and has served no request
ChatIdle ==
    /\ conversations = EmptyDict
    /\ chat_ok = EmptyDict
    /\ chat_response = NoChatAnswer

\* DeploymentMetrics before start_project_deployment stores one
NoMetrics ==
    [tracked |-> FALSE, attempts |-> 0, success |-> FALSE, errors_found |-> 0,
     fixes_applied |-> 0]

\* no call of deploy_project_with_monitoring is under way
MonitorIdle ==
    /\ mon_pc = "idle"
    /\ mon_attempt = 0
    /\ mon_result = NewResult
    /\ mon_errors = <<>>
    /\ mon_trace = <<>>
    /\ mon_metrics = NoMetrics

ServiceIdle == WaitIdle /\ BuildIdle /\ ChatIdle /\ MonitorIdle

StageIdle == PublishIdle /\ FetchIdle /\ ServiceIdle

\* the pipeline is constructed and no batch is started
PipelineIdle ==
    /\ max_retry_attempts = DefaultMaxRetryAttempts
    /\ projects = <<>>
    /\ batch_pc = "idle"
    /\ project_idx = 0
    /\ results = EmptyDict
    /\ pc = "idle"
    /\ attempt = 0
    /\ result = NewResult
    /\ errors = <<>>
    /\ elapsed = 0
    /\ trace = <<>>

pipeline_vars == << max_retry_attempts, projects, batch_pc, project_idx, results,
                    pc, attempt, result, errors, elapsed, trace >>

\* one project directory under /tmp/expo_projects
Init ==
    /\ max_retry_attempts \in 1..MaxAttempts
    /\ projects = SubSeq(Projects, 1, 1)
    /\ batch_pc = "start"
    /\ project_idx = 0
    /\ results = EmptyDict
    /\ pc = "idle"
    /\ attempt = 0
    /\ result = NewResult
    /\ errors = <<>>
    /\ elapsed = 0
    /\ trace = <<>>
    /\ UnitIdle
    /\ StageIdle

\* a batch: up to MaxProjects project directories, or none
BatchInit ==
    /\ max_retry_attempts \in 1..MaxBatchAttempts
    /\ projects \in {SubSeq(Projects, 1, n) : n \in 0..MaxProjects}
    /\ batch_pc = "start"
    /\ project_idx = 0
    /\ results = EmptyDict
    /\ pc = "idle"
    /\ attempt = 0
    /\ result = NewResult
    /\ errors = <<>>
    /\ elapsed = 0
    /\ trace = <<>>
    /\ UnitIdle
    /\ StageIdle

\* the loop bound read as inclusive of max_retry_attempts + 1
LoopHead_OffByOne(k, r) ==
    IF k <= max_retry_attempts + 1
    THEN /\ attempt' = k
         /\ result' = [r EXCEPT !.attempts = k]
         /\ pc' = "publish"
    ELSE /\ attempt' = attempt
         /\ result' = r
         /\ pc' = "done"

\* one more iteration granted while auto-fixable errors remain
LoopHead_ExtraWhenFixable(k, r) ==
    IF \/ k <= max_retry_attempts
       \/ /\ k = max_retry_attempts + 1
          /\ \E i \in 1..Len(r.errors) : r.errors[i].auto_fixable
    THEN /\ attempt' = k
         /\ result' = [r EXCEPT !.attempts = k]
         /\ pc' = "publish"
    ELSE /\ attempt' = attempt
         /\ result' = r
         /\ pc' = "done"

\* The head of 'for attempt in range(1, self.max_retry_attempts + 1)' reached
\* for iteration k with the result r: either the body starts with
\* result.attempts = k, or the loop is exhausted and the summary is printed
LoopHead(k, r) ==
    IF k <= max_retry_attempts
    THEN /\ attempt' = k
         /\ result' = [r EXCEPT !.attempts = k]
         /\ pc' = "publish"
    ELSE /\ attempt' = attempt
         /\ result' = r
         /\ pc' = "done"

\* 'continue' written as 'break'
Continue_AsBreak(r) ==
    /\ pc' = "done"
    /\ result' = r
    /\ attempt' = attempt

\* the retry does not consume an attempt
Continue_SameAttempt(r) == LoopHead(attempt, r)

\* the retry consumes two attempts
Continue_SkipAttempt(r) == LoopHead(attempt + 2, r)

\* 'continue', and the end of the loop body: on to the next iteration
Continue(r) == LoopHead(attempt + 1, r)

\* 'break': the loop is left and the summary is printed
Break(r) ==
    /\ pc' = "done"
    /\ result' = r
    /\ attempt' = attempt

\* deploy_all_projects_with_auto_fix up to the batch loop
StartBatch ==
    /\ batch_pc = "start"
    /\ IF Len(projects) = 0
       THEN batch_pc' = "returned" /\ project_idx' = project_idx
       ELSE batch_pc' = "loop" /\ project_idx' = 1
    /\ UNCHANGED unit_vars
    /\ UNCHANGED stage_vars
    /\ UNCHANGED << max_retry_attempts, projects, results, pc, attempt, result,
                    errors, elapsed, trace >>

\* the batch loop calls deploy_project_with_auto_fix(project)
StartProject ==
    /\ batch_pc = "loop"
    /\ project_idx <= Len(projects)
    /\ batch_pc' = "deploying"
    /\ trace' = <<>>
    /\ errors' = <<>>
    /\ elapsed' = 0
    /\ LoopHead(1, NewResult)
    /\ UNCHANGED unit_vars
    /\ UNCHANGED stage_vars
    /\ UNCHANGED << max_retry_attempts, projects, project_idx, results >>

\* Step 1: _deploy_to_github
Publish ==
    /\ pc = "publish"
    /\ \E env \in {"failed", "no_changes", "pushed"} :
          LET github == deploy_to_github(project, env)
          IN  IF ~github.success
              THEN /\ trace' = Append(trace, Call("publish", attempt, "failed"))
                   /\ Continue(result)
              ELSE /\ trace' = Append(trace, Call("publish", attempt, "ok"))
                   /\ result' = [result EXCEPT !.github_url = github.repository_url]
                   /\ pc' = "snack"
                   /\ attempt' = attempt
    /\ UNCHANGED unit_vars
    /\ UNCHANGED stage_vars
    /\ UNCHANGED << max_retry_attempts, projects, batch_pc, project_idx, results,
                    errors, elapsed >>

\* Step 2: _deploy_to_snack, followed on success by the call of
\* _check_deployment_errors, which enters wait_for_deployment
CreateSnack ==
    /\ pc = "snack"
    /\ \E env \in {"created", "status_error", "exception"}, id \in SnackIds :
          LET snack == create_snack_from_github(result.github_url, env, id)
          IN  IF ~snack.success
              THEN /\ trace' = Append(trace, Call("snack", attempt, "failed"))
                   /\ Continue(result)
                   /\ elapsed' = elapsed
              ELSE /\ trace' = trace \o << Call("snack", attempt, "ok"),
                                          Call("poll", attempt, "pending") >>
                   /\ result' = [result EXCEPT !.snack_url = snack.url,
                                               !.snack_id = snack.snack_id]
                   /\ pc' = "poll"
                   /\ attempt' = attempt
                   /\ elapsed' = 0
    /\ UNCHANGED unit_vars
    /\ UNCHANGED stage_vars
    /\ UNCHANGED << max_retry_attempts, projects, batch_pc, project_idx, results, errors >>

SetLast(s, outcome) == [s EXCEPT ![Len(s)].outcome = outcome]

\* result.success set before the outcome of the wait is tested
PollReturns_SuccessUntested(success, errs, how) ==
    /\ result' = [result EXCEPT !.success = TRUE]
    /\ pc' = IF success THEN "done" ELSE "analyze"
    /\ errors' = errs
    /\ trace' = SetLast(trace, how)

\* wait_for_deployment returned (success, errs) to Step 3; how is the way
\* the wait ended: "ok", "errors" or "timeout"
PollReturns(success, errs, how) ==
    IF success
    THEN /\ result' = [result EXCEPT !.success = TRUE]
         /\ pc' = "done"
         /\ errors' = errs
         /\ trace' = SetLast(trace, how)
    ELSE /\ result' = result
         /\ pc' = "analyze"
         /\ errors' = errs
         /\ trace' = SetLast(trace, how)

\* one iteration of the loop of wait_for_deployment: a status request that
\* takes d seconds, then either a return or time.sleep(5)
Poll ==
    /\ pc = "poll"
    /\ elapsed < PollTimeout
    /\ \E env \in {"ok", "status_error", "exception"}, data \in StatusResponses,
          d \in {0, MaxPollTime} :
          LET check == check_snack_errors(env, data)
              IsActual(e) == e.type # "api_error"
              actual_errors == SelectSeq(check.errors, IsActual)
          IN  /\ env # "ok" => data = EmptyResponse
              /\ IF ~check.has_errors
                 THEN PollReturns(TRUE, <<>>, "ok") /\ elapsed' = 0
                 ELSE IF Len(actual_errors) > 0
                 THEN PollReturns(FALSE, actual_errors, "errors") /\ elapsed' = 0
                 ELSE /\ elapsed' = elapsed + d + PollSleep
                      /\ UNCHANGED << pc, result, errors, trace >>
    /\ UNCHANGED unit_vars
    /\ UNCHANGED stage_vars
    /\ UNCHANGED << max_retry_attempts, projects, batch_pc, project_idx, results, attempt >>

\* the loop condition of wait_for_deployment fails: the synthetic timeout error
PollTimesOut ==
    /\ pc = "poll"
    /\ elapsed >= PollTimeout
    /\ PollReturns(FALSE, << RawError("timeout", MsgTimeout) >>, "timeout")
    /\ elapsed' = 0
    /\ UNCHANGED unit_vars
    /\ UNCHANGED stage_vars
    /\ UNCHANGED << max_retry_attempts, projects, batch_pc, project_idx, results, attempt >>

\* the test of the auto-fixable count dropped
AnalysisDecision_FixAnyway(analysis) == "fix"

\* 'if analysis['auto_fixable_errors'] == 0: break'
AnalysisDecision(analysis) == IF analysis.auto_fixable_errors = 0 THEN "break" ELSE "fix"

\* Step 4: analyze_deployment_errors; an exception of the analysis leaves
\* deploy_project_with_auto_fix, deploy_all_projects_with_auto_fix and main.
\* The local 'errors' is not read after this step and is cleared here.
Analyze ==
    /\ pc = "analyze"
    /\ IF AnalysisRaises(errors)
       THEN /\ trace' = Append(trace, Call("analyze", attempt, "raised"))
            /\ pc' = "raised"
            /\ batch_pc' = "raised"
            /\ result' = result
            /\ attempt' = attempt
       ELSE LET analysis == analyze_deployment_errors(errors)
                r == [result EXCEPT !.errors = analysis.parsed_errors]
            IN  /\ trace' = Append(trace, Call("analyze", attempt, "analyzed"))
                /\ IF AnalysisDecision(analysis) = "break"
                   THEN Break(r)
                   ELSE /\ result' = r
                        /\ pc' = "fix"
                        /\ attempt' = attempt
                /\ batch_pc' = batch_pc
    /\ errors' = <<>>
    /\ UNCHANGED unit_vars
    /\ UNCHANGED stage_vars
    /\ UNCHANGED << max_retry_attempts, projects, project_idx, results, elapsed >>

\* the retry taken whatever the fixes report
FixDecision_AlwaysRetry(successful_fixes) == "retry"

\* the run given up whatever the fixes report
FixDecision_AlwaysBreak(successful_fixes) == "break"

\* 'if successful_fixes == 0: break'
FixDecision(successful_fixes) == IF successful_fixes = 0 THEN "break" ELSE "retry"

\* Step 5: _apply_auto_fixes, then the break or the retry
ApplyFixes ==
    /\ pc = "fix"
    /\ \E io \in [1..Len(result.errors) -> BOOLEAN] :
          LET fixes_applied == fix_errors_with_components(result.errors, io)
              r == [result EXCEPT !.fixes_applied = Update(@, fixes_applied)]
              successful_fixes == Successful(fixes_applied)
          IN  /\ trace' = Append(trace, Call("fix", attempt, "applied"))
              /\ IF FixDecision(successful_fixes) = "break"
                 THEN Break(r)
                 ELSE Continue(r)
    /\ UNCHANGED unit_vars
    /\ UNCHANGED stage_vars
    /\ UNCHANGED << max_retry_attempts, projects, batch_pc, project_idx, results,
                    errors, elapsed >>

\* 'return result' of deploy_project_with_auto_fix and results[project] = result
ReturnResult ==
    /\ pc = "done"
    /\ batch_pc = "deploying"
    /\ results' = Put(results, project, result)
    /\ project_idx' = project_idx + 1
    /\ batch_pc' = "loop"
    /\ pc' = "idle"
    /\ UNCHANGED unit_vars
    /\ UNCHANGED stage_vars
    /\ UNCHANGED << max_retry_attempts, projects, attempt, result, errors, elapsed, trace >>

\* the batch loop is over: _print_overall_summary and 'return results'
FinishBatch ==
    /\ batch_pc = "loop"
    /\ project_idx > Len(projects)
    /\ batch_pc' = "returned"
    /\ UNCHANGED unit_vars
    /\ UNCHANGED stage_vars
    /\ UNCHANGED << max_retry_attempts, projects, project_idx, results, pc, attempt,
                    result, errors, elapsed, trace >>

Next ==
    \/ StartBatch
    \/ StartProject
    \/ Publish
    \/ CreateSnack
    \/ Poll
    \/ PollTimesOut
    \/ Analyze
    \/ ApplyFixes
    \/ ReturnResult
    \/ FinishBatch

Spec == Init /\ [][Next]_vars

BatchSpec == BatchInit /\ [][Next]_vars

\* every stage call returns and the interpreter keeps running
FairSpec == Spec /\ WF_vars(Next)

\* ------------------------------------------------------------------------
\* ErrorAnalyzer.analyze_deployment_errors called on its own, as main() of
\* error_analyzer.py does
\* ------------------------------------------------------------------------
AnalyzerMessages ==
    { MsgRelative, MsgParent, MsgSrc, MsgKnownDep, MsgBare, MsgUnexpectedToken, MsgNavigation,
      MsgImportOutside, MsgImportUnresolved, MsgSyntaxBare, MsgSyntaxNavigation,
      MsgTimeout, NoneMsg }

\* the raw error records: dicts with a 'message', a string or null
AnalyzerInputs ==
    UNION { [1..n -> {RawError("compilation_error", m) : m \in AnalyzerMessages}] :
            n \in 0..MaxErrors }

AnalyzerInit ==
    /\ PipelineIdle
    /\ StageIdle
    /\ GeneratorIdle
    /\ an_pc = "start"
    /\ an_errors \in AnalyzerInputs
    /\ an_report = NoReport

\* the messages are extracted and parse_errors is called
AnalyzerParse ==
    /\ an_pc = "start"
    /\ IF AnalysisRaises(an_errors)
       THEN /\ an_pc' = "raised"
            /\ an_report' = an_report
       ELSE /\ an_pc' = "parsed"
            /\ an_report' =
                  [an_report EXCEPT !.parsed_errors =
                      parse_errors([i \in 1..Len(an_errors) |-> an_errors[i].message])]
    /\ UNCHANGED << an_errors, gen_pc, gen_fs, gen_error, gen_log >>
    /\ UNCHANGED pipeline_vars
    /\ UNCHANGED stage_vars

\* the categories, the fix plan and the report
AnalyzerReturn ==
    /\ an_pc = "parsed"
    /\ an_pc' = "returned"
    /\ an_report' = analyze_deployment_errors(an_errors)
    /\ UNCHANGED << an_errors, gen_pc, gen_fs, gen_error, gen_log >>
    /\ UNCHANGED pipeline_vars
    /\ UNCHANGED stage_vars

AnalyzerNext ==
    \/ AnalyzerParse
    \/ AnalyzerReturn

AnalyzerSpec == AnalyzerInit /\ [][AnalyzerNext]_vars

\* ------------------------------------------------------------------------
\* SmartComponentGenerator called for one ParsedError, once per retry of the
\* pipeline, each call on the project directory the call before left
\* ------------------------------------------------------------------------
PlainApp == Content(<< "app", "plain" >>, "App")

\* the .js files of the project before the first call, in walk order
InitialJs ==
    LET apps == { <<>>,
                  << JsFile(<<>>, "App", PlainApp) >>,
                  << JsFile(<<>>, "App", Content(<< "app", "calculator" >>, "App")) >>,
                  << JsFile(<<>>, "App", Content(<< "app", "todo" >>, "App")) >>,
                  << JsFile(<<>>, "App", Content(<< "app", "weather" >>, "App")) >> }
        existing == { <<>>,
                      << JsFile(<< "src", "components" >>, "Header",
                                Content(<< "app", "plain" >>, "Header")) >>,
                      << JsFile(<< "src", "navigation" >>, "AppNavigator",
                                Content(<< "app", "plain" >>, "AppNavigator")) >> }
    IN  { a \o e : a \in apps, e \in existing }

Manifest(deps) == [exists |-> TRUE, dependencies |-> deps]

\* package.json before the first call: absent, or present with dependencies
InitialPackages ==
    { NoFs.package,
      Manifest(EmptyDict),
      Manifest(Put(EmptyDict, <<"@react-navigation", "native">>, "^6.0.0")),
      Manifest(Put(EmptyDict, <<"@react-navigation", "native">>, "^5.0.0")),
      Manifest(Put(EmptyDict, <<"react-native-maps">>, "1.7.1")) }

UnresolvedMsg(path) == << W("Unable"), W("to"), W("resolve"), W("module"), QT(path) >>

\* the auto-fixable errors the generator is called with
GeneratorErrors ==
    { _parse_single_error(UnresolvedMsg(path)) :
        path \in { << ".", "Header" >>, << ".", "Item" >>, << ".", "TodoList" >>,
                   << "..", "components", "Content" >>, << "src", "screens", "WeatherIcon" >>,
                   << ".", "Widget" >>, << "..", "..", "shared", "Badge" >>,
                   <<"@react-navigation", "native">>, <<"react-native-screens">>,
                   <<"react-native-maps">> } }
    \cup { _parse_single_error(MsgNavigation) }

GeneratorInit ==
    /\ PipelineIdle
    /\ StageIdle
    /\ AnalyzerIdle
    /\ gen_pc = "ready"
    /\ gen_fs \in [js : InitialJs, package : InitialPackages]
    /\ gen_error \in GeneratorErrors
    /\ gen_log = <<>>

AfterCall == IF Len(gen_log) + 1 >= MaxApplications THEN "done" ELSE "ready"

\* fix_errors_with_components([error]) for a missing component:
\* _detect_app_type, then _create_missing_component
CreateComponent ==
    /\ gen_pc = "ready"
    /\ gen_error.auto_fixable /\ gen_error.type = MISSING_COMPONENT
    /\ \E io \in {"ok", "oserror"} :
          LET app_type == _detect_app_type(gen_fs)
              call == _create_missing_component(gen_fs, gen_error, app_type, io)
          IN  /\ gen_fs' = call.fs
              /\ gen_log' = Append(gen_log,
                     [action |-> "create", io |-> io, app_type |-> app_type,
                      success |-> call.success, written |-> call.written,
                      before |-> gen_fs])
    /\ gen_pc' = AfterCall
    /\ UNCHANGED << gen_error, an_pc, an_errors, an_report >>
    /\ UNCHANGED pipeline_vars
    /\ UNCHANGED stage_vars

\* fix_errors_with_components([error]) for a dependency error:
\* _detect_app_type, then _add_missing_dependency
AddDependency ==
    /\ gen_pc = "ready"
    /\ gen_error.auto_fixable /\ gen_error.type = DEPENDENCY_ERROR
    /\ \E io \in {"ok", "oserror"} :
          LET app_type == _detect_app_type(gen_fs)
              call == _add_missing_dependency(gen_fs, gen_error.missing_module, io)
          IN  /\ gen_fs' = call.fs
              /\ gen_log' = Append(gen_log,
                     [action |-> "add_dep", io |-> io, app_type |-> app_type,
                      success |-> call.success, written |-> NoContent,
                      before |-> gen_fs])
    /\ gen_pc' = AfterCall
    /\ UNCHANGED << gen_error, an_pc, an_errors, an_report >>
    /\ UNCHANGED pipeline_vars
    /\ UNCHANGED stage_vars

\* the ways the file operations of a navigation fix can go: "manifest_error"
\* needs a package.json to read
NavigationIo(fs) ==
    {"ok", "oserror"} \cup (IF fs.package.exists THEN {"manifest_error"} ELSE {})

\* fix_errors_with_components([error]) for a navigation error:
\* _detect_app_type, then _fix_navigation_setup
FixNavigation ==
    /\ gen_pc = "ready"
    /\ gen_error.auto_fixable /\ gen_error.type = NAVIGATION_ERROR
    /\ \E io \in NavigationIo(gen_fs) :
          LET app_type == _detect_app_type(gen_fs)
              call == _fix_navigation_setup(gen_fs, io)
          IN  /\ gen_fs' = call.fs
              /\ gen_log' = Append(gen_log,
                     [action |-> "fix_navigation", io |-> io, app_type |-> app_type,
                      success |-> call.success, written |-> NoContent,
                      before |-> gen_fs])
    /\ gen_pc' = AfterCall
    /\ UNCHANGED << gen_error, an_pc, an_errors, an_report >>
    /\ UNCHANGED pipeline_vars
    /\ UNCHANGED stage_vars

GeneratorNext ==
    \/ CreateComponent
    \/ AddDependency
    \/ FixNavigation

GeneratorSpec == GeneratorInit /\ [][GeneratorNext]_vars

\* ------------------------------------------------------------------------
\* One attempt's repair: analyze_deployment_errors, then _apply_auto_fixes
\* hands analysis['parsed_errors'] to fix_errors_with_components, which
\* handles one error per turn of its loop
\* ------------------------------------------------------------------------
PatchMessages == { MsgRelative, MsgKnownDep, MsgNavigation, MsgUnexpectedToken, MsgBare }

PatchInputs ==
    UNION { [1..n -> {RawError("compilation_error", m) : m \in PatchMessages}] :
            n \in 0..MaxErrors }

PatchProjects ==
    { NoFs,
      [js |-> << JsFile(<<>>, "App", PlainApp) >>, package |-> Manifest(EmptyDict)],
      [js |-> << JsFile(<<>>, "App", Content(<< "app", "todo" >>, "App")) >>,
       package |-> Manifest(Put(EmptyDict, <<"@react-navigation", "native">>, "^5.0.0"))] }

PatchInit ==
    /\ PipelineIdle
    /\ StageIdle
    /\ an_pc = "start"
    /\ an_errors \in PatchInputs
    /\ an_report = NoReport
    /\ gen_pc = "ready"
    /\ gen_fs \in PatchProjects
    /\ gen_error = ParsedError(UNKNOWN_ERROR, <<>>, NoPath, NoFix, FALSE)
    /\ gen_log = <<>>

\* the branch of the if/elif chain of the loop taken for an error
FixAction(error) ==
    IF error.auto_fixable /\ error.type = MISSING_COMPONENT THEN "create"
    ELSE IF error.auto_fixable /\ error.type = NAVIGATION_ERROR THEN "fix_navigation"
    ELSE IF error.auto_fixable /\ error.type = DEPENDENCY_ERROR THEN "add_dep"
    ELSE "none"

\* the ways the file operations of the fix for an error can go
FixIo(fs, error) ==
    CASE FixAction(error) = "create" -> {"ok", "oserror"}
      [] FixAction(error) = "fix_navigation" -> NavigationIo(fs)
      [] FixAction(error) = "add_dep" ->
            IF fs.package.exists THEN {"ok", "manifest_error"} ELSE {"ok"}
      [] OTHER -> {"ok"}

\* one turn of the loop of fix_errors_with_components
FixOne(fs, error, app_type, io) ==
    CASE FixAction(error) = "create" ->
            LET call == _create_missing_component(fs, error, app_type, io)
            IN  [fs |-> call.fs, success |-> call.success, written |-> call.written,
                 key |-> FixKey("create", error.missing_module)]
      [] FixAction(error) = "fix_navigation" ->
            LET call == _fix_navigation_setup(fs, io)
            IN  [fs |-> call.fs, success |-> call.success, written |-> NoContent,
                 key |-> FixKey("fix_navigation", NoPath)]
      [] FixAction(error) = "add_dep" ->
            LET call == _add_missing_dependency(fs, error.missing_module, io)
            IN  [fs |-> call.fs, success |-> call.success, written |-> NoContent,
                 key |-> FixKey("add_dep", error.missing_module)]
      [] OTHER ->
            [fs |-> fs, success |-> FALSE, written |-> NoContent,
             key |-> FixKey("none", NoPath)]

\* _apply_auto_fixes after analysis['auto_fixable_errors'] > 0: the next
\* error of analysis['parsed_errors']; app_type is detected once, before the
\* first turn
PatchError ==
    /\ an_pc = "returned"
    /\ gen_pc \in {"ready", "patching"}
    /\ AnalysisDecision(an_report) = "fix"
    /\ Len(gen_log) < Len(an_report.parsed_errors)
    /\ LET error == an_report.parsed_errors[Len(gen_log) + 1]
           app_type == IF gen_log = <<>> THEN _detect_app_type(gen_fs)
                       ELSE gen_log[1].app_type
       IN  \E io \in FixIo(gen_fs, error) :
              LET turn == FixOne(gen_fs, error, app_type, io)
              IN  /\ gen_fs' = turn.fs
                  /\ gen_log' = Append(gen_log,
                         [action |-> FixAction(error), io |-> io, app_type |-> app_type,
                          success |-> turn.success, written |-> turn.written,
                          before |-> gen_fs, key |-> turn.key])
    /\ gen_pc' = IF Len(gen_log) + 1 = Len(an_report.parsed_errors) THEN "done" ELSE "patching"
    /\ UNCHANGED << gen_error, an_pc, an_errors, an_report >>
    /\ UNCHANGED pipeline_vars
    /\ UNCHANGED stage_vars

PatchNext ==
    \/ AnalyzerParse
    \/ AnalyzerReturn
    \/ PatchError

PatchSpec == PatchInit /\ [][PatchNext]_vars

\* fix_results after the first k turns of the loop
RECURSIVE FixResultsAfter(_)
FixResultsAfter(k) ==
    IF k = 0 THEN EmptyDict
    ELSE IF gen_log[k].action = "none" THEN FixResultsAfter(k - 1)
    ELSE Put(FixResultsAfter(k - 1), gen_log[k].key, gen_log[k].success)

\* ------------------------------------------------------------------------
\* GitHubDeployer.deploy_to_github called on its own, one command per step
\* ------------------------------------------------------------------------
\* the project directory may be missing, have no .git, have nothing new to
\* commit once README.md is rewritten and everything is added, have an origin
\* remote (at the deterministic URL or elsewhere); the repository may exist
\* on the hosting side
PublishEnvs ==
    [project : {"TodoApp"}, force : BOOLEAN, exists : BOOLEAN, has_git : BOOLEAN,
     dirty : BOOLEAN, remote : {NoUrl, RepoUrl("TodoApp"), RepoUrl("CalculatorApp")},
     repo_exists : BOOLEAN]

PublishInit ==
    /\ PipelineIdle
    /\ UnitIdle
    /\ FetchIdle
    /\ ServiceIdle
    /\ pub_pc = "start"
    /\ pub_env \in {e \in PublishEnvs : (e.remote # NoUrl) => e.has_git}
    /\ pub_log = <<>>
    /\ pub_result = NoPublishResult

Ran(cmd, ok, arg) == [cmd |-> cmd, ok |-> ok, arg |-> arg]

\* except subprocess.CalledProcessError: the command is attached
CommandFailure(cmd) ==
    [success |-> FALSE, repository_url |-> NoUrl, command |-> cmd,
     message |-> "Git command failed"]

\* the return before the try, and except Exception
OtherFailure(message) ==
    [success |-> FALSE, repository_url |-> NoUrl, command |-> "", message |-> message]

PublishFrame ==
    /\ UNCHANGED pipeline_vars
    /\ UNCHANGED unit_vars
    /\ UNCHANGED fetch_vars
    /\ UNCHANGED service_vars

\* if not os.path.exists(project_path)
PubCheckProject ==
    /\ pub_pc = "start"
    /\ IF ~pub_env.exists
       THEN /\ pub_pc' = "returned"
            /\ pub_result' = OtherFailure("Project not found")
       ELSE /\ pub_pc' = IF pub_env.has_git THEN "add" ELSE "init"
            /\ pub_result' = pub_result
    /\ UNCHANGED << pub_env, pub_log >>
    /\ PublishFrame

\* git init, run through _run_git_command (check=True)
PubGitInit ==
    /\ pub_pc = "init"
    /\ \E ok \in BOOLEAN :
          /\ pub_log' = Append(pub_log, Ran("git init", ok, NoUrl))
          /\ IF ok
             THEN /\ pub_pc' = "add"
                  /\ pub_env' = [pub_env EXCEPT !.has_git = TRUE]
                  /\ pub_result' = pub_result
             ELSE /\ pub_pc' = "returned"
                  /\ pub_env' = pub_env
                  /\ pub_result' = CommandFailure("git init")
    /\ PublishFrame

\* _create_enhanced_readme, then git add .
PubGitAdd ==
    /\ pub_pc = "add"
    /\ \E ok \in BOOLEAN :
          /\ pub_log' = Append(pub_log, Ran("git add", ok, NoUrl))
          /\ IF ok
             THEN /\ pub_pc' = "status"
                  /\ pub_result' = pub_result
             ELSE /\ pub_pc' = "returned"
                  /\ pub_result' = CommandFailure("git add")
    /\ UNCHANGED pub_env
    /\ PublishFrame

\* git status --porcelain through subprocess.run without check: a failing
\* git status prints nothing on stdout, as a clean working copy does
PubGitStatus ==
    /\ pub_pc = "status"
    /\ \E ok \in BOOLEAN :
          /\ pub_log' = Append(pub_log, Ran("git status", ok, NoUrl))
          /\ IF ok /\ pub_env.dirty
             THEN /\ pub_pc' = "commit"
                  /\ pub_result' = pub_result
             ELSE /\ pub_pc' = "returned"
                  /\ pub_result' =
                        [success |-> TRUE, repository_url |-> NoUrl, command |-> "",
                         message |-> "No changes to commit"]
    /\ UNCHANGED pub_env
    /\ PublishFrame

\* git commit -m
PubGitCommit ==
    /\ pub_pc = "commit"
    /\ \E ok \in BOOLEAN :
          /\ pub_log' = Append(pub_log, Ran("git commit", ok, NoUrl))
          /\ IF ok
             THEN /\ pub_pc' = "remote"
                  /\ pub_env' = [pub_env EXCEPT !.dirty = FALSE]
                  /\ pub_result' = pub_result
             ELSE /\ pub_pc' = "returned"
                  /\ pub_env' = pub_env
                  /\ pub_result' = CommandFailure("git commit")
    /\ PublishFrame

\* git remote get-url origin: CalledProcessError means remote_exists = False
PubRemoteProbe ==
    /\ pub_pc = "remote"
    /\ \E ok \in {b \in BOOLEAN : b => pub_env.remote # NoUrl} :
          /\ pub_log' = Append(pub_log, Ran("git remote get-url", ok, NoUrl))
          /\ pub_pc' = IF ok THEN "set_url" ELSE "add_remote"
    /\ UNCHANGED << pub_env, pub_result >>
    /\ PublishFrame

\* git remote add origin repo_url: fails when origin is there already
PubRemoteAdd ==
    /\ pub_pc = "add_remote"
    /\ \E ok \in {b \in BOOLEAN : b => pub_env.remote = NoUrl} :
          /\ pub_log' = Append(pub_log, Ran("git remote add", ok, RepoUrl(pub_env.project)))
          /\ IF ok
             THEN /\ pub_pc' = "view"
                  /\ pub_env' = [pub_env EXCEPT !.remote = RepoUrl(pub_env.project)]
                  /\ pub_result' = pub_result
             ELSE /\ pub_pc' = "returned"
                  /\ pub_env' = pub_env
                  /\ pub_result' = CommandFailure("git remote add")
    /\ PublishFrame

\* git remote set-url origin repo_url
PubRemoteSetUrl ==
    /\ pub_pc = "set_url"
    /\ \E ok \in BOOLEAN :
          /\ pub_log' = Append(pub_log, Ran("git remote set-url", ok, RepoUrl(pub_env.project)))
          /\ IF ok
             THEN /\ pub_pc' = "view"
                  /\ pub_env' = [pub_env EXCEPT !.remote = RepoUrl(pub_env.project)]
                  /\ pub_result' = pub_result
             ELSE /\ pub_pc' = "returned"
                  /\ pub_env' = pub_env
                  /\ pub_result' = CommandFailure("git remote set-url")
    /\ PublishFrame

\* _create_github_repo: gh repo view without check; "no_gh" is the
\* FileNotFoundError of a missing gh, which _create_github_repo does not catch
PubRepoView ==
    /\ pub_pc = "view"
    /\ \E outcome \in {"missing", "no_gh"} \cup (IF pub_env.repo_exists THEN {"found"} ELSE {}) :
          /\ pub_log' = Append(pub_log, Ran("gh repo view", outcome = "found", NoUrl))
          /\ IF outcome = "no_gh"
             THEN /\ pub_pc' = "returned"
                  /\ pub_result' = OtherFailure("Deployment failed")
             ELSE /\ pub_pc' = IF outcome = "found" THEN "push" ELSE "create"
                  /\ pub_result' = pub_result
    /\ UNCHANGED pub_env
    /\ PublishFrame

\* _create_github_repo: gh repo create with check=True; CalledProcessError
\* makes it return False, which deploy_to_github does not read
PubRepoCreate ==
    /\ pub_pc = "create"
    /\ \E ok \in {b \in BOOLEAN : b => ~pub_env.repo_exists} :
          /\ pub_log' = Append(pub_log, Ran("gh repo create", ok, NoUrl))
          /\ pub_env' = [pub_env EXCEPT !.repo_exists = @ \/ ok]
    /\ pub_pc' = "push"
    /\ UNCHANGED pub_result
    /\ PublishFrame

PushCommand == IF pub_env.force THEN "git push -f" ELSE "git push"

\* git push [-f] origin main: goes through only to a repository that exists
PubPush ==
    /\ pub_pc = "push"
    /\ \E ok \in {b \in BOOLEAN : b => pub_env.repo_exists} :
          /\ pub_log' = Append(pub_log, Ran(PushCommand, ok, pub_env.remote))
          /\ pub_result' =
                IF ok
                THEN [success |-> TRUE, repository_url |-> RepoUrl(pub_env.project),
                      command |-> "", message |-> ""]
                ELSE CommandFailure(PushCommand)
    /\ pub_pc' = "returned"
    /\ UNCHANGED pub_env
    /\ PublishFrame

PublishNext ==
    \/ PubCheckProject
    \/ PubGitInit
    \/ PubGitAdd
    \/ PubGitStatus
    \/ PubGitCommit
    \/ PubRemoteProbe
    \/ PubRemoteAdd
    \/ PubRemoteSetUrl
    \/ PubRepoView
    \/ PubRepoCreate
    \/ PubPush

PublishSpec == PublishInit /\ [][PublishNext]_vars

\* ------------------------------------------------------------------------
\* ExpoSnackAPI._fetch_github_files, as create_snack_from_github calls it
\* ------------------------------------------------------------------------
RepoFile(dir, stem, ext) == [dir |-> dir, stem |-> stem, ext |-> ext]

\* the files a published repository may hold
RepoFiles ==
    { RepoFile(<<>>, "App", "js"),
      RepoFile(<<>>, "package", "json"),
      RepoFile(<< "src" >>, "theme", "json"),
      RepoFile(<< "src", "components" >>, "Header", "js"),
      RepoFile(<< "src", "screens", "home" >>, "Home", "js"),
      RepoFile(<< "components" >>, "Button", "js") }

\* item['name'].endswith('.js')
EndsWithJs(file) == file.ext = "js"

\* a repository, the downloads that answer with another status than 200, and
\* whether the request of the root listing raises
FetchRepos ==
    { [files |-> fs, failing |-> bad, raises |-> r] :
        fs \in SUBSET RepoFiles,
        bad \in {{}} \cup { {f} : f \in {g \in RepoFiles : EndsWithJs(g)} },
        r \in BOOLEAN }

IsPrefix(p, q) == Len(p) <= Len(q) /\ SubSeq(q, 1, Len(p)) = p

\* the listing the contents API gives for a directory: its files and its
\* sub-directories
Listing(repo, dir) ==
    { [type |-> "file", name |-> "", file |-> f] : f \in {g \in repo.files : g.dir = dir} }
    \cup
    { [type |-> "dir", name |-> d, file |-> RepoFile(<<>>, "", "")] :
        d \in { g.dir[Len(dir) + 1] :
                  g \in {h \in repo.files : IsPrefix(dir, h.dir) /\ Len(h.dir) > Len(dir)} } }

\* the key of a file of the payload: item['name'] at the root, the path
\* below path_prefix elsewhere
FileKey(file) == [dir |-> file.dir, name |-> << file.stem, file.ext >>]

\* {"type": "CODE", "contents": file_response.text}
Code(file) == [type |-> "CODE", contents |-> file]

\* _fetch_directory_files: the items of one listing, then the directories
\* below it
RECURSIVE _fetch_directory_items(_, _, _, _)
_fetch_directory_items(repo, dir, items, files) ==
    IF items = {} THEN files
    ELSE LET item == CHOOSE i \in items : TRUE
             rest == items \ {item}
         IN  IF item.type = "file" /\ EndsWithJs(item.file)
             THEN _fetch_directory_items(repo, dir, rest,
                      IF item.file \in repo.failing THEN files
                      ELSE Put(files, FileKey(item.file), Code(item.file)))
             ELSE IF item.type = "dir"
             THEN LET sub == Append(dir, item.name)
                  IN  _fetch_directory_items(repo, dir, rest,
                          _fetch_directory_items(repo, sub, Listing(repo, sub), files))
             ELSE _fetch_directory_items(repo, dir, rest, files)

_fetch_directory_files(repo, dir, files) ==
    _fetch_directory_items(repo, dir, Listing(repo, dir), files)

\* the loop over the root listing: files only
RECURSIVE FetchMainFiles(_, _, _)
FetchMainFiles(repo, items, files) ==
    IF items = {} THEN files
    ELSE LET item == CHOOSE i \in items : TRUE
         IN  FetchMainFiles(repo, items \ {item},
                 IF item.type = "file" /\ EndsWithJs(item.file) /\ item.file \notin repo.failing
                 THEN Put(files, FileKey(item.file), Code(item.file))
                 ELSE files)

\* _fetch_github_files: the root listing, then the src directory when the
\* API answers 200 for it; an exception gives {}
_fetch_github_files(repo) ==
    IF repo.raises THEN EmptyDict
    ELSE LET main == FetchMainFiles(repo, Listing(repo, <<>>), EmptyDict)
         IN  IF Listing(repo, << "src" >>) # {}
             THEN _fetch_directory_files(repo, << "src" >>, main)
             ELSE main

FetchInit ==
    /\ PipelineIdle
    /\ UnitIdle
    /\ PublishIdle
    /\ ServiceIdle
    /\ fetch_pc = "start"
    /\ fetch_repo \in {r \in FetchRepos : r.failing \subseteq r.files}
    /\ fetch_files = EmptyDict

FetchFrame ==
    /\ UNCHANGED pipeline_vars
    /\ UNCHANGED unit_vars
    /\ UNCHANGED publish_vars
    /\ UNCHANGED service_vars

\* github_files = self._fetch_github_files(owner, repo)
FetchGithubFiles ==
    /\ fetch_pc = "start"
    /\ fetch_pc' = "fetched"
    /\ fetch_files' = _fetch_github_files(fetch_repo)
    /\ UNCHANGED fetch_repo
    /\ FetchFrame

\* if github_files: payload["files"] = github_files, and the POST
SubmitPayload ==
    /\ fetch_pc = "fetched"
    /\ fetch_pc' = "submitted"
    /\ fetch_files' = IF fetch_files # EmptyDict THEN fetch_files ELSE EmptyDict
    /\ UNCHANGED fetch_repo
    /\ FetchFrame

FetchNext ==
    \/ FetchGithubFiles
    \/ SubmitPayload

FetchSpec == FetchInit /\ [][FetchNext]_vars

\* ------------------------------------------------------------------------
\* Properties of the orchestrator
\* ------------------------------------------------------------------------
HasCalls == Len(trace) > 0

Last == trace[Len(trace)]

Returned == pc \in {"done", "idle"}

AnyAutoFixable(parsed_errors) ==
    \E i \in 1..Len(parsed_errors) : parsed_errors[i].auto_fixable

\* the keys of the fix map that the patcher returns for result.errors
FixKeys(parsed_errors) ==
    DOMAIN fix_errors_with_components(parsed_errors, [i \in 1..Len(parsed_errors) |-> TRUE])

\* the fix map returned for the errors of the current attempt reports a success
SomeFixSucceeded ==
    \E k \in FixKeys(result.errors) : k \in DOMAIN result.fixes_applied /\ result.fixes_applied[k]

\* C1: the attempt counter never exceeds max_retry_attempts, neither does the
\* attempts field of the result under construction nor of a returned result
C1_AttemptsBounded ==
    /\ attempt <= max_retry_attempts
    /\ result.attempts <= max_retry_attempts
    /\ \A p \in DOMAIN results : results[p].attempts <= max_retry_attempts

\* the last allowed attempt ended with a successful fix and the run stopped
C1_Witness ==
    /\ pc = "done"
    /\ max_retry_attempts = MaxAttempts
    /\ result.attempts = max_retry_attempts
    /\ HasCalls /\ Last.stage = "fix"
    /\ SomeFixSucceeded

\* C2: success is set only by a poll of the last attempt that reported zero
\* errors, after a successful publish and a successful sandbox creation of
\* that attempt, and such a poll always ends the run with success
C2_SuccessIffCleanPoll ==
    /\ result.success =>
          /\ Returned
          /\ Len(trace) >= 3
          /\ Last = Call("poll", result.attempts, "ok")
          /\ trace[Len(trace) - 1] = Call("snack", result.attempts, "ok")
          /\ trace[Len(trace) - 2] = Call("publish", result.attempts, "ok")
    /\ \A i \in 1..Len(trace) :
          (trace[i].stage = "poll" /\ trace[i].outcome = "ok") =>
              /\ i = Len(trace)
              /\ Returned
              /\ result.success
              /\ result.attempts = trace[i].attempt
    /\ \A p \in DOMAIN results : results[p].success => results[p] = result

\* a run that succeeded in its second attempt
C2_Witness == pc = "done" /\ result.success /\ result.attempts = 2

\* C3: a wait that ended by timeout in an attempt before the last one is
\* followed by a further attempt starting with publish
C3_TimeoutRetried ==
    \A i \in 1..Len(trace) :
        ( /\ trace[i].stage = "poll"
          /\ trace[i].outcome = "timeout"
          /\ trace[i].attempt < max_retry_attempts
          /\ Returned ) =>
        \E j \in (i + 1)..Len(trace) :
            trace[j].stage = "publish" /\ trace[j].attempt = trace[i].attempt + 1

\* C4: an exception of a stage call never leaves the orchestrator, and when
\* the batch is over every project has its result
C4_StageExceptionContained ==
    /\ batch_pc # "raised"
    /\ pc # "raised"
    /\ batch_pc = "returned" =>
          \A i \in 1..Len(projects) : projects[i] \in DOMAIN results

AllPublishFailed ==
    \A i \in 1..Len(trace) : trace[i].stage = "publish" => trace[i].outcome = "failed"

\* C5: while every publish of the run has failed, the i-th stage call is the
\* failed publish of attempt i, no sandbox call was made, the sandbox URL is
\* empty, and the run ends with success = false and attempts = N
C5_PublishAlwaysFails ==
    AllPublishFailed =>
        /\ \A i \in 1..Len(trace) : trace[i] = Call("publish", i, "failed")
        /\ result.snack_url = NoSnackUrl
        /\ result.snack_id = ""
        /\ ~result.success
        /\ pc = "publish" => attempt = Len(trace) + 1
        /\ pc \in {"publish", "done", "idle"}
        /\ pc = "done" =>
              /\ Len(trace) = max_retry_attempts
              /\ result.attempts = max_retry_attempts

\* three publishes failed with max_retry_attempts = 3
C5_Witness ==
    /\ pc = "done"
    /\ max_retry_attempts = DefaultMaxRetryAttempts
    /\ Len(trace) = DefaultMaxRetryAttempts
    /\ AllPublishFailed

\* C6: after an analysis that found no auto-fixable error the run has stopped
\* in that attempt with success = false; the analysis is the last stage call
C6_NoFixableStops ==
    ( /\ HasCalls
      /\ Last.stage = "analyze"
      /\ Last.outcome = "analyzed"
      /\ ~AnyAutoFixable(result.errors) ) =>
    /\ Returned
    /\ ~result.success
    /\ result.attempts = Last.attempt

\* stopped for manual intervention in the first of several attempts
C6_Witness ==
    /\ pc = "done"
    /\ HasCalls /\ Last.stage = "analyze" /\ Last.outcome = "analyzed"
    /\ ~AnyAutoFixable(result.errors)
    /\ Last.attempt = 1
    /\ max_retry_attempts > 1

\* C7: after fixes were applied of which none reports success the run has
\* stopped in that attempt with success = false
C7_NoSuccessfulFixStops ==
    ( /\ HasCalls
      /\ Last.stage = "fix"
      /\ ~SomeFixSucceeded ) =>
    /\ Returned
    /\ ~result.success
    /\ result.attempts = Last.attempt

\* fixes applied without success in the first of several attempts
C7_Witness ==
    /\ pc = "done"
    /\ HasCalls /\ Last.stage = "fix"
    /\ FixKeys(result.errors) # {}
    /\ ~SomeFixSucceeded
    /\ Last.attempt = 1
    /\ max_retry_attempts > 1

\* C8: after attempt k < N applied fixes for auto-fixable errors and at least
\* one reports success, the orchestrator is at publish with attempt k + 1,
\* and the stage call that follows a fix is always that publish
C8_SuccessfulFixRetries ==
    /\ ( /\ HasCalls
         /\ Last.stage = "fix"
         /\ AnyAutoFixable(result.errors)
         /\ SomeFixSucceeded
         /\ Last.attempt < max_retry_attempts ) =>
       /\ pc = "publish"
       /\ attempt = Last.attempt + 1
       /\ result.attempts = Last.attempt + 1
    /\ \A i \in 1..(Len(trace) - 1) :
          trace[i].stage = "fix" =>
              trace[i + 1] = Call("publish", trace[i].attempt + 1, trace[i + 1].outcome)

\* the retry after a successful fix of the first attempt
C8_Witness ==
    /\ pc = "publish"
    /\ attempt = 2
    /\ HasCalls /\ Last.stage = "fix" /\ Last.attempt = 1
    /\ SomeFixSucceeded

\* the last stage call is one of the ways an attempt ends without success
\* that would otherwise lead to a retry
EndsForRetry ==
    /\ HasCalls
    /\ \/ Last.stage = "publish" /\ Last.outcome = "failed"
       \/ Last.stage = "snack" /\ Last.outcome = "failed"
       \/ Last.stage = "fix" /\ SomeFixSucceeded

\* C9: when attempt N ends by a publish failure, a sandbox-creation failure
\* or a successful fix, the run has stopped with success = false
C9_ExhaustedStops ==
    (EndsForRetry /\ Last.attempt = max_retry_attempts) =>
        /\ Returned
        /\ ~result.success
        /\ result.attempts = max_retry_attempts

\* attempt N of several ended with a successful fix, auto-fixable errors left
C9_Witness ==
    /\ pc = "done"
    /\ max_retry_attempts = MaxAttempts
    /\ HasCalls /\ Last.stage = "fix" /\ Last.attempt = max_retry_attempts
    /\ SomeFixSucceeded
    /\ AnyAutoFixable(result.errors)

\* C10: a run starts at publish with attempt 1; it makes at most five stage
\* calls per allowed attempt and, unless a stage call raises, reaches the
\* terminal state and returns; the batch then holds exactly one result for
\* the project, which no later step changes
C10_RunStartsAndTerminates ==
    /\ [][(batch_pc = "loop" /\ batch_pc' = "deploying") =>
            (pc' = "publish" /\ attempt' = 1 /\ result'.attempts = 1 /\ trace' = <<>>)]_vars
    /\ [](Len(trace) <= 5 * max_retry_attempts)
    /\ (batch_pc = "deploying") ~> (pc = "idle" \/ pc = "raised")
    /\ [](pc = "done" => (HasCalls /\ Last.outcome # "raised"))
    /\ [](project_idx > 1 =>
            (pc = "idle" /\ DOMAIN results = {projects[1]} /\ results[projects[1]] = result))
    /\ [](project_idx <= 1 => results = EmptyDict)
    /\ [][project_idx > 1 => (results' = results /\ pc' = "idle")]_vars

\* a run that used every attempt has returned its result
C10_Witness ==
    /\ batch_pc = "returned"
    /\ DOMAIN results = {projects[1]}
    /\ results[projects[1]].attempts = MaxAttempts

\* ------------------------------------------------------------------------
\* Properties of the classifier and the fix planner
\* ------------------------------------------------------------------------
Classified == an_pc \in {"parsed", "returned"}

Parsed == an_report.parsed_errors

Plan == an_report.fix_plan

MessageOf(i) == an_errors[i].message

\* the categories of error_patterns that have a pattern matching the message
MatchingCategories(m) ==
    {c \in 1..Len(error_patterns) :
        \E p \in 1..Len(error_patterns[c].patterns) : Search(error_patterns[c].patterns[p], m)}

\* the earliest category matching the message, 0 when no pattern matches
FirstCategory(m) ==
    IF MatchingCategories(m) = {} THEN 0
    ELSE CHOOSE c \in MatchingCategories(m) : \A d \in MatchingCategories(m) : c <= d

BarePackagePattern == << L("Cannot"), L("find"), L("module"), Q >>

\* C11: a message that matches Cannot find module '<name>', and no pattern of
\* an earlier category, is classified dependency_error with auto_fixable true
C11_BarePackageAutoFixable ==
    Classified =>
        \A i \in 1..Len(an_errors) :
            (Search(BarePackagePattern, MessageOf(i)) /\ FirstCategory(MessageOf(i)) = 5) =>
                /\ Parsed[i].type = DEPENDENCY_ERROR
                /\ Parsed[i].auto_fixable

\* the path captured by the first missing-module pattern that matches m
CapturedMissingModule(m) ==
    LET pats == error_patterns[1].patterns
        p == CHOOSE q \in 1..Len(pats) :
                 Search(pats[q], m) /\ \A r \in 1..(q - 1) : ~Search(pats[r], m)
    IN  Group1(pats[p], m)

LooksLocal(path) == Len(path) >= 2 /\ path[1] \in {".", "..", "src"}

\* C12: a message matching a missing-module pattern is classified
\* missing_component, auto-fixable, with missing_module the captured path when
\* that path starts with './', '../' or 'src/', and dependency_error,
\* auto-fixable, for any other captured path
C12_MissingModuleSplit ==
    Classified =>
        \A i \in 1..Len(an_errors) :
            (1 \in MatchingCategories(MessageOf(i))) =>
                LET path == CapturedMissingModule(MessageOf(i))
                IN  /\ Parsed[i].auto_fixable
                    /\ Parsed[i].type =
                          IF LooksLocal(path) THEN MISSING_COMPONENT ELSE DEPENDENCY_ERROR
                    /\ LooksLocal(path) => Parsed[i].missing_module = path

C12_Witness ==
    /\ an_pc = "parsed"
    /\ Len(an_errors) = 3
    /\ MessageOf(1) = MsgSrc /\ Parsed[1].type = MISSING_COMPONENT
    /\ Parsed[1].missing_module = <<"src", "navigation", "AppNavigator.js">>
    /\ MessageOf(2) = MsgParent /\ Parsed[2].type = MISSING_COMPONENT
    /\ MessageOf(3) = MsgKnownDep /\ Parsed[3].type = DEPENDENCY_ERROR
    /\ Parsed[3].auto_fixable

\* C13: parse_errors returns one ParsedError per message, the i-th one being
\* the classification of the i-th message
C13_OnePerMessageInOrder ==
    Classified =>
        /\ Len(Parsed) = Len(an_errors)
        /\ \A i \in 1..Len(an_errors) :
              /\ Parsed[i].message = MessageOf(i)
              /\ Parsed[i] = _parse_single_error(MessageOf(i))

C13_Witness ==
    /\ an_pc = "returned"
    /\ Len(Parsed) = 3
    /\ MessageOf(1) = MsgUnexpectedToken /\ Parsed[1].type = SYNTAX_ERROR
    /\ MessageOf(2) = MsgRelative /\ Parsed[2].type = MISSING_COMPONENT
    /\ MessageOf(3) = MsgTimeout /\ Parsed[3].type = UNKNOWN_ERROR

\* the category of error_patterns a ParsedError was created for
ResultCategory(e) ==
    CASE e.type = MISSING_COMPONENT -> 1
      [] e.type = DEPENDENCY_ERROR /\ e.missing_module # NoPath -> 1
      [] e.type = IMPORT_ERROR -> 2
      [] e.type = NAVIGATION_ERROR -> 3
      [] e.type = SYNTAX_ERROR -> 4
      [] e.type = DEPENDENCY_ERROR /\ e.missing_module = NoPath -> 5
      [] OTHER -> 0

\* C14: a message is classified by the earliest category, in the order missing
\* module, import error, navigation error, syntax error, dependency error,
\* that has a matching pattern, also when later categories match as well
C14_EarliestCategoryWins ==
    Classified =>
        \A i \in 1..Len(an_errors) :
            ResultCategory(Parsed[i]) = FirstCategory(MessageOf(i))

C14_Witness ==
    /\ an_pc = "parsed"
    /\ Len(an_errors) = 3
    /\ MessageOf(1) = MsgImportOutside /\ MatchingCategories(MessageOf(1)) = {2, 4}
    /\ Parsed[1].type = IMPORT_ERROR
    /\ MessageOf(2) = MsgSyntaxBare /\ MatchingCategories(MessageOf(2)) = {4, 5}
    /\ Parsed[2].type = SYNTAX_ERROR
    /\ MessageOf(3) = MsgImportUnresolved /\ MatchingCategories(MessageOf(3)) = {1, 2}
    /\ Parsed[3].type = MISSING_COMPONENT

\* C15: analyze_deployment_errors raises for no list of raw error records,
\* and a message that matches no pattern is classified unknown_error, not
\* auto-fixable
C15_ClassificationNeverRaises ==
    /\ an_pc # "raised"
    /\ Classified =>
          \A i \in 1..Len(an_errors) :
              FirstCategory(MessageOf(i)) = 0 =>
                  (Parsed[i].type = UNKNOWN_ERROR /\ ~Parsed[i].auto_fixable)

\* the steps the planner makes for the error e alone
StepsFrom(e) == AutoSteps(<< e >>) \o ManualSteps(<< e >>)

\* the steps of the errors errs[i..] in the order of the errors
RECURSIVE StepsInInputOrder(_, _)
StepsInInputOrder(errs, i) ==
    IF i > Len(errs) THEN <<>>
    ELSE StepsFrom(errs[i]) \o StepsInInputOrder(errs, i + 1)

Tier(steps, priority) ==
    LET Is(step) == step.priority = priority
    IN  SelectSeq(steps, Is)

\* C16: the fix plan is the high-priority steps, then the medium-priority
\* steps, then the low-priority steps, each tier in the order of the errors
\* its steps come from
C16_PlanSortedStable ==
    an_pc = "returned" =>
        LET steps == StepsInInputOrder(Parsed, 1)
        IN  Plan = Tier(steps, "high") \o Tier(steps, "medium") \o Tier(steps, "low")

C16_Witness ==
    /\ an_pc = "returned"
    /\ Len(an_errors) = 3
    /\ MessageOf(1) = MsgKnownDep /\ MessageOf(2) = MsgNavigation /\ MessageOf(3) = MsgRelative
    /\ Plan[1].action = "fix_navigation"
    /\ Plan[2].action = "create_component"
    /\ Plan[3].action = "add_dependency"

\* the step the policy gives for an error
PolicyStep(e) ==
    CASE e.type = MISSING_COMPONENT ->
             FixStep("create_component", << QT(e.missing_module) >>, "high")
      [] e.type = DEPENDENCY_ERROR ->
             FixStep("add_dependency", << QT(e.missing_module) >>, "medium")
      [] e.type = NAVIGATION_ERROR ->
             FixStep("fix_navigation", << W("navigation_config") >>, "high")
      [] OTHER -> FixStep("manual_review", e.message, "low")

Occurrences(seq, x) == Cardinality({j \in 1..Len(seq) : seq[j] = x})

\* C17: the fix plan has exactly one step per ParsedError: create_component
\* (high) for missing_component, add_dependency (medium) for dependency_error,
\* fix_navigation (high) for navigation_error, manual_review (low) with the
\* message as target for every other error
C17_OneStepPerErrorByPolicy ==
    an_pc = "returned" =>
        LET policy == [i \in 1..Len(Parsed) |-> PolicyStep(Parsed[i])]
        IN  /\ Len(Plan) = Len(Parsed)
            /\ \A i \in 1..Len(Parsed) :
                  Occurrences(Plan, policy[i]) = Occurrences(policy, policy[i])

RelativeMisses == {MsgRelative, MsgParent, MsgSrc}

BareMisses == {MsgBare, MsgKnownDep}

\* C18: a relative-import miss, a bare-package miss and 'SyntaxError:
\* Unexpected token' analyzed together give total_errors 3, auto_fixable_errors
\* 2 and a plan of the create-component and add-dependency steps followed by
\* the manual-review step of the syntax error
C18_ThreeErrorScenario ==
    ( /\ an_pc = "returned"
      /\ Len(an_errors) = 3
      /\ MessageOf(1) \in RelativeMisses
      /\ MessageOf(2) \in BareMisses
      /\ MessageOf(3) = MsgUnexpectedToken ) =>
        /\ an_report.total_errors = 3
        /\ an_report.auto_fixable_errors = 2
        /\ Len(Plan) = 3
        /\ {Plan[1].action, Plan[2].action} = {"create_component", "add_dependency"}
        /\ Plan[3] = FixStep("manual_review", MsgUnexpectedToken, "low")

\* ------------------------------------------------------------------------
\* Properties of the generator
\* ------------------------------------------------------------------------
\* C19: when the same create-component fix is applied twice, the second time
\* to the project the first application left, and no file operation fails,
\* both applications report success and write the same file content
C19_CreateComponentIdempotent ==
    ( /\ Len(gen_log) >= 2
      /\ gen_log[1].action = "create" /\ gen_log[1].io = "ok"
      /\ gen_log[2].action = "create" /\ gen_log[2].io = "ok" ) =>
        /\ gen_log[1].success
        /\ gen_log[2].success
        /\ gen_log[1].written = gen_log[2].written

\* the project directory after the k-th call
FsAfter(k) == IF k < Len(gen_log) THEN gen_log[k + 1].before ELSE gen_fs

\* C20: add-dependency for a package that is already a key of the manifest's
\* dependencies, with no file operation failing, reports success and leaves
\* the manifest as it was
C20_AddDependencyNoOp ==
    \A k \in 1..Len(gen_log) :
        ( /\ gen_log[k].action = "add_dep" /\ gen_log[k].io = "ok"
          /\ gen_log[k].before.package.exists
          /\ gen_error.missing_module \in DOMAIN gen_log[k].before.package.dependencies ) =>
            /\ gen_log[k].success
            /\ FsAfter(k).package = gen_log[k].before.package

\* C21: add-dependency for a package name outside the table of known versions
\* reports failure and leaves the manifest (and every file) as it was; a call
\* that reports success was for a name of the table and leaves the manifest's
\* dependencies equal to the ones before with exactly the table's pinned
\* version under that key; with the manifest present and no file operation
\* failing a name of the table is always recorded
C21_AddDependencyPinsTableVersion ==
    \A k \in 1..Len(gen_log) :
        gen_log[k].action = "add_dep" =>
            LET dependency == gen_error.missing_module
                before == gen_log[k].before
                after == FsAfter(k)
            IN  /\ dependency \notin dependency_versions =>
                       ~gen_log[k].success /\ after = before
                /\ gen_log[k].success =>
                       /\ dependency \in dependency_versions
                       /\ after.js = before.js
                       /\ after.package.exists
                       /\ after.package.dependencies =
                              Put(before.package.dependencies, dependency,
                                  DependencyVersion(dependency))
                /\ ( /\ dependency \in dependency_versions
                     /\ before.package.exists
                     /\ gen_log[k].io = "ok" ) => gen_log[k].success
                /\ ~gen_log[k].success => after = before

\* an unknown package refused with package.json present, and a known one
\* pinned over an older version
C21_Witness ==
    /\ Len(gen_log) >= 1
    /\ gen_log[1].action = "add_dep" /\ gen_log[1].io = "ok"
    /\ gen_log[1].before.package.exists
    /\ \/ /\ gen_error.missing_module = <<"react-native-maps">>
          /\ ~gen_log[1].success
          /\ FsAfter(1) = gen_log[1].before
       \/ /\ gen_error.missing_module = <<"@react-navigation", "native">>
          /\ gen_log[1].before.package =
                 Manifest(Put(EmptyDict, <<"@react-navigation", "native">>, "^5.0.0"))
          /\ gen_log[1].success
          /\ FsAfter(1).package.dependencies[<<"@react-navigation", "native">>] = "^6.0.0"

HasNavDeps(fs) ==
    /\ fs.package.exists
    /\ \A k \in 1..Len(nav_deps) : nav_deps[k] \in DOMAIN fs.package.dependencies

NavigatorOf(fs) ==
    { fs.js[i] : i \in { j \in 1..Len(fs.js) : /\ fs.js[j].dir = << "src", "navigation" >>
                                               /\ fs.js[j].name = "AppNavigator" } }

\* C23: after a fix-navigation step that reports success the project has
\* src/navigation/AppNavigator.js, its package.json lists the four navigation
\* dependencies, and a navigation file that was there before is as it was
C23_NavigationFixEstablishesSetup ==
    \A k \in 1..Len(gen_log) :
        (gen_log[k].action = "fix_navigation" /\ gen_log[k].success) =>
            /\ NavigatorOf(FsAfter(k)) # {}
            /\ NavigatorOf(gen_log[k].before) # {} =>
                   NavigatorOf(FsAfter(k)) = NavigatorOf(gen_log[k].before)
            /\ HasNavDeps(FsAfter(k))

\* C22: when a patch call has gone through its list of errors, every step in
\* which a file operation or the decoding of package.json failed is recorded
\* as false, and every auto-fixable error has its step in the fix map
C22_StepFailureReportedAndIsolated ==
    gen_pc = "done" =>
        /\ Len(gen_log) = Len(an_report.parsed_errors)
        /\ \A k \in 1..Len(gen_log) :
               /\ (gen_log[k].action # "none" /\ gen_log[k].io # "ok") => ~gen_log[k].success
               /\ an_report.parsed_errors[k].auto_fixable =>
                      gen_log[k].key \in DOMAIN FixResultsAfter(Len(gen_log))

\* C29: in one patch call no add-dependency fix is applied before a
\* create-component or fix-navigation fix
C29_HighPriorityFixesFirst ==
    \A i, j \in 1..Len(gen_log) :
        (i < j /\ gen_log[i].action = "add_dep") =>
            gen_log[j].action \notin {"create", "fix_navigation"}

\* the commands whose non-zero exit is a failure (the two probes answer with it)
FailedCommands ==
    { k \in 1..Len(pub_log) :
        /\ ~pub_log[k].ok
        /\ pub_log[k].cmd \notin {"git remote get-url", "gh repo view"} }

\* C25: a call of deploy_to_github in which a command failed returns a
\* failure that names that command
C25_FailedCommandSurfaced ==
    (pub_pc = "returned" /\ FailedCommands # {}) =>
        /\ ~pub_result.success
        /\ \E k \in FailedCommands : pub_result.command = pub_log[k].cmd

RanOk(k, cmds) == pub_log[k].cmd \in cmds /\ pub_log[k].ok

\* C30: a successful return of the publish the orchestrator asks for
\* (force_update) comes after, in this order, git add and git commit, the
\* origin remote set to the deterministic URL, the remote repository found
\* or created, and git push -f
C30_SuccessAfterFullSequence ==
    (pub_pc = "returned" /\ pub_result.success /\ pub_env.force) =>
        \E a, c, r, e, p \in 1..Len(pub_log) :
            /\ a < c /\ c < r /\ r < e /\ e < p
            /\ RanOk(a, {"git add"})
            /\ RanOk(c, {"git commit"})
            /\ RanOk(r, {"git remote add", "git remote set-url"})
            /\ pub_log[r].arg = RepoUrl(pub_env.project)
            /\ RanOk(e, {"gh repo view", "gh repo create"})
            /\ RanOk(p, {"git push -f"})
            /\ pub_log[p].arg = RepoUrl(pub_env.project)

\* C28: when every download answers 200 and no request raises, the files of
\* the submitted payload are the .js files of the repository, each under the
\* key of its path
C28_PayloadIsWholeSourceTree ==
    (fetch_pc = "submitted" /\ fetch_repo.failing = {} /\ ~fetch_repo.raises) =>
        /\ DOMAIN fetch_files = { FileKey(f) : f \in {g \in fetch_repo.files : EndsWithJs(g)} }
        /\ \A f \in fetch_repo.files :
               EndsWithJs(f) => fetch_files[FileKey(f)] = Code(f)

\* ------------------------------------------------------------------------
\* Properties of the stages seen from the orchestrator
\* ------------------------------------------------------------------------
\* C24: after every successful publish, also one with nothing to commit, the
\* orchestrator's github_url is the repository URL of the lower-cased project
\* name
C24_PublishCarriesUrl ==
    (batch_pc = "deploying" /\ HasCalls /\ Last.stage = "publish" /\ Last.outcome = "ok") =>
        /\ result.github_url # NoUrl
        /\ result.github_url = RepoUrl(project)

\* C26: wait_for_deployment ends with success and no errors, or with failure
\* and the reported errors, none of them a transport failure of the poll
\* (non-200 status, exception of the request), or with failure and the one
\* synthetic timeout error
C26_WaitEndsThreeWays ==
    (HasCalls /\ Last.stage = "poll" /\ Last.outcome # "pending") =>
        \/ /\ Last.outcome = "ok"
           /\ result.success
           /\ errors = <<>>
        \/ /\ Last.outcome = "errors"
           /\ ~result.success
           /\ Len(errors) > 0
           /\ \A i \in 1..Len(errors) : errors[i].type \notin {"api_error", "exception"}
        \/ /\ Last.outcome = "timeout"
           /\ ~result.success
           /\ errors = << RawError("timeout", MsgTimeout) >>

\* the attempt the run ended in has analyzed errors
FinalAttemptAnalyzed ==
    \E i \in 1..Len(trace) :
        trace[i].stage = "analyze" /\ trace[i].attempt = result.attempts

\* C27: when the run ends in failure, result.errors holds the ParsedErrors of
\* the final attempt and none of an earlier attempt: it is empty when the
\* final attempt analyzed no errors
C27_ErrorsOfFinalAttempt ==
    (pc = "done" /\ ~result.success) =>
        IF FinalAttemptAnalyzed THEN Len(result.errors) > 0 ELSE result.errors = <<>>

\* ------------------------------------------------------------------------
\* Retry after a failed sandbox creation
\* ------------------------------------------------------------------------
SnackFailedAt(i) == trace[i].stage = "snack" /\ trace[i].outcome = "failed"

\* C31: a failed sandbox creation of attempt k follows the successful publish
\* of attempt k, no poll, analysis or fix of attempt k is in the run, and
\* what follows is the publish of attempt k + 1 when k < N, the end of the
\* run with attempts = N otherwise
C31_SnackFailureRetriesFromPublish ==
    \A i \in 1..Len(trace) :
        SnackFailedAt(i) =>
            LET k == trace[i].attempt
            IN  /\ i > 1 /\ trace[i - 1] = Call("publish", k, "ok")
                /\ \A j \in 1..Len(trace) :
                       trace[j].attempt = k => trace[j].stage \in {"publish", "snack"}
                /\ i < Len(trace) =>
                       /\ k < max_retry_attempts
                       /\ trace[i + 1].stage = "publish"
                       /\ trace[i + 1].attempt = k + 1
                /\ i = Len(trace) =>
                       IF k < max_retry_attempts
                       THEN pc = "publish" /\ attempt = k + 1 /\ result.attempts = k + 1
                       ELSE Returned /\ result.attempts = k /\ ~result.success

\* sandbox creation failed in attempt 1 and attempt 2 went on to its poll
C31_Witness ==
    /\ Len(trace) >= 5
    /\ trace[1] = Call("publish", 1, "ok")
    /\ trace[2] = Call("snack", 1, "failed")
    /\ trace[3] = Call("publish", 2, "ok")
    /\ trace[4] = Call("snack", 2, "ok")
    /\ trace[5].stage = "poll"

\* ------------------------------------------------------------------------
\* Where a create-component fix writes
\* ------------------------------------------------------------------------
\* the directory a path names once its '..' segments are followed, relative
\* to the project directory; a '..' at the project directory leaves it
RECURSIVE Resolve(_, _)
Resolve(dir, acc) ==
    IF dir = <<>> THEN acc
    ELSE IF Head(dir) = ".." /\ acc # <<>> /\ acc[Len(acc)] # ".."
    THEN Resolve(Tail(dir), SubSeq(acc, 1, Len(acc) - 1))
    ELSE IF Head(dir) = "." THEN Resolve(Tail(dir), acc)
    ELSE Resolve(Tail(dir), Append(acc, Head(dir)))

InsideSrc(dir) == LET d == Resolve(dir, <<>>) IN Len(d) >= 1 /\ d[1] = "src"

Written(k) ==
    { FsAfter(k).js[i] : i \in 1..Len(FsAfter(k).js) } \
    { gen_log[k].before.js[i] : i \in 1..Len(gen_log[k].before.js) }

\* C39: every file a successful create-component fix wrote or changed lies
\* under <project>/src
C39_CreatedFilesInsideSrc ==
    \A k \in 1..Len(gen_log) :
        (gen_log[k].action = "create" /\ gen_log[k].success) =>
            \A file \in Written(k) : InsideSrc(file.dir)

\* ------------------------------------------------------------------------
\* ExpoSnackAPI.wait_for_deployment on its own, under an injected clock
\* ------------------------------------------------------------------------
\* what the clock may advance by during one status request or one sleep
WaitTicks == {1, PollSleep, MaxPollTime}

\* the loop test with the bound included
WaitCondition_Inclusive(e) == e <= PollTimeout

\* 'while time.time() - start_time < timeout'
WaitCondition(e) == e < PollTimeout

WaitFrame ==
    /\ UNCHANGED pipeline_vars
    /\ UNCHANGED unit_vars
    /\ UNCHANGED << publish_vars, fetch_vars, build_vars, chat_vars, mon_vars >>

WaitInit ==
    /\ PipelineIdle
    /\ UnitIdle
    /\ PublishIdle
    /\ FetchIdle
    /\ BuildIdle
    /\ ChatIdle
    /\ MonitorIdle
    /\ wait_pc = "test"
    /\ wait_clock = 0
    /\ wait_polls = 0
    /\ wait_issued_at = 0
    /\ wait_inflight = 0
    /\ wait_result = NoWaitResult

\* the loop test holds and check_snack_errors sends its status request
WaitIssuePoll ==
    /\ wait_pc = "test"
    /\ WaitCondition(wait_clock)
    /\ wait_pc' = "polling"
    /\ wait_polls' = wait_polls + 1
    /\ wait_issued_at' = wait_clock
    /\ wait_inflight' = wait_inflight + 1
    /\ UNCHANGED << wait_clock, wait_result >>
    /\ WaitFrame

\* check_snack_errors returns; the two returns inside the loop
WaitPollAnswer ==
    /\ wait_pc = "polling"
    /\ \E env \in {"ok", "status_error", "exception"}, data \in StatusResponses,
          d \in WaitTicks :
          LET check == check_snack_errors(env, data)
              IsActual(e) == e.type # "api_error"
              actual_errors == SelectSeq(check.errors, IsActual)
          IN  /\ env # "ok" => data = EmptyResponse
              /\ wait_clock' = wait_clock + d
              /\ wait_inflight' = wait_inflight - 1
              /\ IF ~check.has_errors
                 THEN /\ wait_pc' = "returned"
                      /\ wait_result' = [success |-> TRUE, errors |-> <<>>]
                 ELSE IF Len(actual_errors) > 0
                 THEN /\ wait_pc' = "returned"
                      /\ wait_result' = [success |-> FALSE, errors |-> actual_errors]
                 ELSE /\ wait_pc' = "sleeping"
                      /\ UNCHANGED wait_result
    /\ UNCHANGED << wait_polls, wait_issued_at >>
    /\ WaitFrame

\* time.sleep(5)
WaitSleep ==
    /\ wait_pc = "sleeping"
    /\ \E d \in WaitTicks : wait_clock' = wait_clock + d
    /\ wait_pc' = "test"
    /\ UNCHANGED << wait_polls, wait_issued_at, wait_inflight, wait_result >>
    /\ WaitFrame

\* the loop test fails: the synthetic timeout error
WaitTimesOut ==
    /\ wait_pc = "test"
    /\ ~WaitCondition(wait_clock)
    /\ wait_pc' = "returned"
    /\ wait_result' = [success |-> FALSE, errors |-> << RawError("timeout", MsgTimeout) >>]
    /\ UNCHANGED << wait_clock, wait_polls, wait_issued_at, wait_inflight >>
    /\ WaitFrame

WaitNext == WaitIssuePoll \/ WaitPollAnswer \/ WaitSleep \/ WaitTimesOut

WaitSpec == WaitInit /\ [][WaitNext]_vars

\* C32: under a clock that advances by a positive amount on every status
\* request and every sleep, wait_for_deployment issues at most one status
\* request at a time, issues none once the elapsed time has reached the
\* timeout, issues no more of them than the timeout has seconds, and is either
\* returned or at a step that moves the clock or the loop forward.
C32_PollLoopBounded ==
    /\ wait_inflight \in {0, 1}
    /\ (wait_inflight = 1) <=> (wait_pc = "polling")
    /\ wait_polls > 0 => wait_issued_at < PollTimeout
    /\ wait_polls <= PollTimeout
    /\ wait_pc \in {"sleeping", "returned"} /\ wait_polls > 0 => wait_clock > wait_issued_at
    /\ wait_pc = "test" /\ wait_polls > 0 => wait_clock > wait_issued_at + 1
    /\ wait_pc \in {"test", "polling", "sleeping", "returned"}
    /\ wait_pc = "returned" =>
          \/ wait_result.success /\ wait_result.errors = <<>>
          \/ ~wait_result.success /\ Len(wait_result.errors) > 0

\* the loop polled more than once and ended by the timeout
C32_Witness ==
    /\ wait_pc = "returned"
    /\ wait_polls >= 2
    /\ wait_result = [success |-> FALSE, errors |-> << RawError("timeout", MsgTimeout) >>]

\* ------------------------------------------------------------------------
\* The builder router: the app-build workflow and the project registry
\* ------------------------------------------------------------------------
\* "max_retries": 3 of the initial state
MaxRetries == 3

\* workflow.invoke(state) is given no config: the graph stops with
\* GraphRecursionError when 25 steps have not brought it to END
RecursionLimit == 25

\* the requests the router serves in one run
MaxRequests == 3

ProjectIds == {"default", "shop"}

END == "__end__"

\* the initial state of build_react_native_app
InitialBuildState ==
    [current_step |-> "plan_architecture", retry_count |-> 0, max_retries |-> MaxRetries,
     errors |-> FALSE]

\* plan_app_architecture; a reply that is not JSON gives the fallback structure
plan_app_architecture(state) == [state EXCEPT !.current_step = "generate_project"]

generate_react_native_project(state) == [state EXCEPT !.current_step = "generate_components"]

generate_app_components(state) == [state EXCEPT !.current_step = "install_dependencies"]

\* install_dependencies: ok is 'npm install' returning 0; a non-zero return
\* code, the timeout and any other exception are caught and recorded
install_dependencies(state, ok) ==
    IF ok
    THEN [state EXCEPT !.current_step = "validate_build"]
    ELSE [state EXCEPT !.current_step = "fix_dependencies", !.errors = TRUE]

\* validate_build: ok is 'node -c App.js' returning 0
validate_build(state, ok) ==
    IF ok
    THEN [state EXCEPT !.current_step = "complete"]
    ELSE [state EXCEPT !.current_step = "fix_errors", !.errors = TRUE]

\* the count raised also when the budget is used up
fix_errors_CountsPastBudget(state, ok) ==
    IF ok
    THEN [state EXCEPT !.current_step = "install_dependencies", !.retry_count = @ + 1]
    ELSE [state EXCEPT !.current_step = "complete", !.retry_count = @ + 1]

\* fix_errors: ok is a reply of the model that parses as JSON
fix_errors(state, ok) ==
    IF state.retry_count >= state.max_retries
    THEN [state EXCEPT !.current_step = "complete"]
    ELSE IF ok
    THEN [state EXCEPT !.current_step = "install_dependencies", !.retry_count = @ + 1]
    ELSE [state EXCEPT !.current_step = "complete", !.retry_count = @ + 1]

route_after_install(state) ==
    IF state.current_step = "fix_dependencies" THEN "fix_errors" ELSE "validate_build"

route_after_validation(state) ==
    IF state.current_step = "fix_errors" THEN "fix_errors" ELSE END

\* workflow.add_edge
StaticEdges ==
    { << "plan_architecture", "generate_project" >>,
      << "generate_project", "generate_components" >>,
      << "generate_components", "install_dependencies" >>,
      << "install_dependencies", "validate_build" >>,
      << "validate_build", END >>,
      << "fix_errors", "install_dependencies" >> }

\* workflow.add_conditional_edges
Routed(node, state) ==
    IF node = "install_dependencies" THEN {route_after_install(state)}
    ELSE IF node = "validate_build" THEN {route_after_validation(state)}
    ELSE {}

\* the nodes a finished node triggers for the next step: those of its edges
\* and the one its routing function names
Targets(node, state) ==
    ({e[2] : e \in {x \in StaticEdges : x[1] = node}} \cup Routed(node, state)) \ {END}

\* the nodes whose failure is not caught inside the node: the calls of the
\* model and the file writes
MayRaise(node) ==
    node \in {"plan_architecture", "generate_project", "generate_components", "fix_errors"}

\* what the surroundings may make of one execution of a node
\* "fail" is a failed command for install_dependencies and validate_build and
\* a reply that is not JSON for fix_errors, which asks the model only while
\* the retry budget lasts
NodeOutcomes(node, state) ==
    CASE node \in {"plan_architecture", "generate_project", "generate_components"} ->
             {"ok", "raise"}
      [] node = "fix_errors" ->
             IF state.retry_count >= state.max_retries THEN {"ok"} ELSE {"ok", "fail", "raise"}
      [] OTHER -> {"ok", "fail"}

\* what a node returns for a state
RunNode(node, state, outcome) ==
    CASE node = "plan_architecture" -> plan_app_architecture(state)
      [] node = "generate_project" -> generate_react_native_project(state)
      [] node = "generate_components" -> generate_app_components(state)
      [] node = "install_dependencies" -> install_dependencies(state, outcome = "ok")
      [] node = "validate_build" -> validate_build(state, outcome = "ok")
      [] node = "fix_errors" -> fix_errors(state, outcome = "ok")

NodeOrder ==
    << "plan_architecture", "generate_project", "generate_components",
       "install_dependencies", "validate_build", "fix_errors" >>

\* one execution of a node: the step it ran in, what it was given and returned
NodeRun(node, step, state, outcome) ==
    [node |-> node, step |-> step, outcome |-> outcome, entered |-> state,
     returned |-> IF outcome = "raise" THEN state ELSE RunNode(node, state, outcome)]

BuildFrame ==
    /\ UNCHANGED pipeline_vars
    /\ UNCHANGED unit_vars
    /\ UNCHANGED << publish_vars, fetch_vars, wait_vars, chat_vars, mon_vars >>

BuildInit ==
    /\ PipelineIdle
    /\ UnitIdle
    /\ PublishIdle
    /\ FetchIdle
    /\ WaitIdle
    /\ ChatIdle
    /\ MonitorIdle
    /\ BuildIdle

\* POST /react-native/build up to workflow.invoke(state)
BuildRequest ==
    /\ wf_pc = "idle"
    /\ rn_request.n < MaxRequests
    /\ \E id \in ProjectIds : rn_request' = [n |-> rn_request.n + 1, project_id |-> id]
    /\ wf_pc' = "running"
    /\ wf_next' = {"plan_architecture"}
    /\ wf_state' = InitialBuildState
    /\ wf_log' = <<>>
    /\ wf_steps' = 0
    /\ UNCHANGED << rn_projects, rn_response >>
    /\ BuildFrame

\* one step of the compiled graph: every triggered node runs on the state of
\* the step's start; a node that raises ends the run; two nodes of one step
\* both write every key of the state, which the graph refuses
\* (InvalidUpdateError); otherwise the returned state is taken and the nodes
\* for the next step are triggered
WorkflowStep ==
    /\ wf_pc = "running"
    /\ wf_steps < RecursionLimit
    /\ \E outcome \in [wf_next -> {"ok", "fail", "raise"}] :
          LET ran == SelectSeq(NodeOrder, LAMBDA n : n \in wf_next)
              runs == [i \in 1..Len(ran) |->
                          NodeRun(ran[i], wf_steps + 1, wf_state, outcome[ran[i]])]
              raised == \E n \in wf_next : outcome[n] = "raise"
              node == ran[1]
              new == runs[1].returned
          IN  /\ \A n \in wf_next : outcome[n] \in NodeOutcomes(n, wf_state)
              /\ wf_log' = wf_log \o runs
              /\ wf_steps' = wf_steps + 1
              /\ IF raised \/ Len(ran) > 1
                 THEN /\ wf_pc' = "raised"
                      /\ UNCHANGED << wf_state, wf_next >>
                 ELSE /\ wf_state' = new
                      /\ wf_next' = Targets(node, new)
                      /\ wf_pc' = IF Targets(node, new) = {} THEN "ended" ELSE "running"
    /\ UNCHANGED << rn_projects, rn_request, rn_response >>
    /\ BuildFrame

\* the recursion limit is reached with nodes still triggered: GraphRecursionError
WorkflowOutOfSteps ==
    /\ wf_pc = "running"
    /\ wf_steps >= RecursionLimit
    /\ wf_pc' = "raised"
    /\ UNCHANGED << wf_next, wf_state, wf_log, wf_steps, rn_projects, rn_request, rn_response >>
    /\ BuildFrame

Http(n, op, id, status) == [n |-> n, op |-> op, id |-> id, status |-> status]

\* the registry written before the workflow is run
Stored_BeforeInvoke(registry, id, how, state) ==
    IF how = "ended" THEN Put(registry, id, state) ELSE Put(registry, id, InitialBuildState)

\* 'rn_projects[request.project_id] = result' follows workflow.invoke inside
\* the try: an exception of the workflow leaves before it
Stored(registry, id, how, state) ==
    IF how = "ended" THEN Put(registry, id, state) ELSE registry

\* the rest of POST /react-native/build: the response, or HTTP 500
BuildRespond ==
    /\ wf_pc \in {"ended", "raised"}
    /\ rn_projects' = Stored(rn_projects, rn_request.project_id, wf_pc, wf_state)
    /\ rn_response' = Http(rn_request.n, "build", rn_request.project_id,
                            IF wf_pc = "ended" THEN 200 ELSE 500)
    /\ wf_pc' = "idle"
    /\ wf_next' = {}
    /\ wf_state' = NoWfState
    /\ wf_log' = <<>>
    /\ wf_steps' = 0
    /\ UNCHANGED rn_request
    /\ BuildFrame

\* GET /react-native/projects/{project_id}
GetProject ==
    /\ wf_pc = "idle"
    /\ rn_request.n < MaxRequests
    /\ \E id \in ProjectIds :
          /\ rn_request' = [n |-> rn_request.n + 1, project_id |-> id]
          /\ rn_response' = Http(rn_request.n + 1, "get", id,
                                  IF id \in DOMAIN rn_projects THEN 200 ELSE 404)
    /\ UNCHANGED << wf_pc, wf_next, wf_state, wf_log, wf_steps, rn_projects >>
    /\ BuildFrame

Remove(d, k) == [x \in (DOMAIN d) \ {k} |-> d[x]]

\* DELETE /react-native/projects/{project_id}; a failure of the directory
\* cleanup is ignored
DeleteProject ==
    /\ wf_pc = "idle"
    /\ rn_request.n < MaxRequests
    /\ \E id \in ProjectIds :
          /\ rn_request' = [n |-> rn_request.n + 1, project_id |-> id]
          /\ IF id \in DOMAIN rn_projects
             THEN /\ rn_projects' = Remove(rn_projects, id)
                  /\ rn_response' = Http(rn_request.n + 1, "delete", id, 200)
             ELSE /\ UNCHANGED rn_projects
                  /\ rn_response' = Http(rn_request.n + 1, "delete", id, 404)
    /\ UNCHANGED << wf_pc, wf_next, wf_state, wf_log, wf_steps >>
    /\ BuildFrame

BuildNext ==
    \/ BuildRequest
    \/ WorkflowStep
    \/ WorkflowOutOfSteps
    \/ BuildRespond
    \/ GetProject
    \/ DeleteProject

BuildSpec == BuildInit /\ [][BuildNext]_vars

\* the nodes that ran in step k of the current invoke
NodesAt(k) == {wf_log[j].node : j \in {x \in 1..Len(wf_log) : wf_log[x].step = k}}

\* C33: after install_dependencies the next step of the workflow runs exactly
\* one node: fix_errors when the install failed (current_step
\* 'fix_dependencies'), validate_build when it succeeded.
C33_InstallRoutesToOneNode ==
    \A i \in 1..Len(wf_log) :
        wf_log[i].node = "install_dependencies" /\ NodesAt(wf_log[i].step + 1) # {} =>
            NodesAt(wf_log[i].step + 1) =
                IF wf_log[i].returned.current_step = "fix_dependencies"
                THEN {"fix_errors"}
                ELSE {"validate_build"}

\* C34: once fix_errors is entered with retry_count >= max_retries it sets
\* current_step to 'complete' and no node of the workflow runs after it.
C34_BudgetEndsWorkflow ==
    \A i \in 1..Len(wf_log) :
        /\ wf_log[i].node = "fix_errors"
        /\ wf_log[i].entered.retry_count >= wf_log[i].entered.max_retries
        => /\ wf_log[i].returned.current_step = "complete"
           /\ \A j \in (i + 1)..Len(wf_log) : wf_log[j].step <= wf_log[i].step

\* the execution was the only one of its step and returned, so that the graph
\* took the state it returned
Committed(i) ==
    /\ wf_log[i].outcome # "raise"
    /\ NodesAt(wf_log[i].step) = {wf_log[i].node}

\* C35: retry_count is 0 when the workflow starts and never above
\* max_retries = 3; every fix_errors execution that is entered below
\* max_retries and returns, returns a state whose retry_count is one higher,
\* one entered at max_retries returns it unchanged, and the retry_count of the
\* workflow is the number of the former whose state the graph took.
C35_RetryCountBounded ==
    wf_pc # "idle" =>
        /\ wf_state.max_retries = MaxRetries
        /\ wf_state.retry_count \in 0..MaxRetries
        /\ wf_log = <<>> => wf_state.retry_count = 0
        /\ \A i \in 1..Len(wf_log) :
              /\ wf_log[i].returned.retry_count <= MaxRetries
              /\ wf_log[i].node # "fix_errors" \/ wf_log[i].outcome = "raise" =>
                    wf_log[i].returned.retry_count = wf_log[i].entered.retry_count
              /\ wf_log[i].node = "fix_errors" /\ wf_log[i].outcome # "raise" =>
                    wf_log[i].returned.retry_count =
                        IF wf_log[i].entered.retry_count < MaxRetries
                        THEN wf_log[i].entered.retry_count + 1
                        ELSE wf_log[i].entered.retry_count
        /\ wf_state.retry_count =
              Cardinality({i \in 1..Len(wf_log) :
                              /\ wf_log[i].node = "fix_errors"
                              /\ wf_log[i].entered.retry_count < MaxRetries
                              /\ Committed(i)})

\* fix_errors has used the whole budget and was entered once more
C35_Witness ==
    /\ wf_pc = "running"
    /\ wf_state.retry_count = MaxRetries
    /\ \E i \in 1..Len(wf_log) :
          /\ wf_log[i].node = "fix_errors"
          /\ wf_log[i].entered.retry_count = MaxRetries
          /\ Committed(i)

\* what one step of the router does to the registry, told by its response
RegistryStep ==
    LET r == rn_response'
        present == r.id \in DOMAIN rn_projects
    IN  IF rn_response' = rn_response
        THEN rn_projects' = rn_projects
        ELSE /\ r.op \in {"get", "delete"} => (r.status = 404 <=> ~present)
             /\ r.status = 404 => rn_projects' = rn_projects
             /\ r.op = "get" => rn_projects' = rn_projects
             /\ r.op = "build" => r.status \in {200, 500}
             /\ r.op = "build" /\ r.status = 500 => rn_projects' = rn_projects
             /\ r.op = "build" /\ r.status = 200 =>
                   /\ DOMAIN rn_projects' = DOMAIN rn_projects \cup {r.id}
                   /\ \A id \in DOMAIN rn_projects \ {r.id} : rn_projects'[id] = rn_projects[id]
             /\ r.op = "delete" /\ r.status = 200 =>
                   /\ DOMAIN rn_projects' = DOMAIN rn_projects \ {r.id}
                   /\ \A id \in DOMAIN rn_projects' : rn_projects'[id] = rn_projects[id]

\* C36: a project id enters the registry only by a build request for it that
\* completes and leaves it only by a DELETE of it: GET and DELETE of an absent
\* id answer 404 and change nothing, a build that ends in an error changes
\* nothing, and a DELETE that succeeds leaves the id absent, so that a GET of
\* it answers 404.
C36_RegistryLifecycle == [][RegistryStep]_vars

\* a project was built and then deleted
C36_Witness ==
    /\ rn_response = Http(3, "delete", "default", 200)
    /\ "default" \notin DOMAIN rn_projects
    /\ "shop" \in DOMAIN rn_projects

\* ------------------------------------------------------------------------
\* The chat router: POST /chat and the conversation registry
\* ------------------------------------------------------------------------
ConversationIds == {"default", "support"}

UserMessages == {"hello", "why"}

\* what the model answers when analyze_intent asks for the intent
Intents == {"greeting", "question", "goodbye"}

Message(role, content) == [role |-> role, content |-> content]

\* the state chat_endpoint registers for an unknown conversation id
NewConversation == [messages |-> <<>>, intent |-> "", current_step |-> "start"]

\* analyze_intent: the intent goes into the context
analyze_intent(state, intent) ==
    [state EXCEPT !.intent = intent, !.current_step = "process_intent"]

\* the fixed answers of process_intent, and for questions and tasks the
\* reply of the model
AiResponse(intent) ==
    IF intent = "greeting" THEN "Hello! I'm your AI assistant. How can I help you today?"
    ELSE IF intent = "goodbye" THEN "Goodbye! Have a great day!"
    ELSE "reply"

\* the answer appended without the user's message
process_intent_AnswerOnly(state, user_input) ==
    [state EXCEPT !.messages = Append(@, Message("assistant", AiResponse(state.intent))),
                  !.current_step = "complete"]

\* process_intent: new_messages is a copy with the user's message and the
\* answer appended
process_intent(state, user_input) ==
    [state EXCEPT !.messages = @ \o << Message("user", user_input),
                                       Message("assistant", AiResponse(state.intent)) >>,
                  !.current_step = "complete"]

ChatAnswer(n, op, id, status, message) ==
    [n |-> n, op |-> op, id |-> id, status |-> status, message |-> message]

ChatFrame ==
    /\ UNCHANGED pipeline_vars
    /\ UNCHANGED unit_vars
    /\ UNCHANGED << publish_vars, fetch_vars, wait_vars, build_vars, mon_vars >>

ChatInit ==
    /\ PipelineIdle
    /\ UnitIdle
    /\ PublishIdle
    /\ FetchIdle
    /\ WaitIdle
    /\ BuildIdle
    /\ MonitorIdle
    /\ ChatIdle

\* POST /chat. how tells where the workflow raises, if it does:
\*   "analyze_raises"  create_llm or the call of the model in analyze_intent
\*   "process_raises"  create_llm or the call of the model in process_intent
\*   "ok"              the workflow reaches END
ChatEndpoint ==
    /\ chat_response.n < MaxRequests
    /\ \E id \in ConversationIds, message \in UserMessages, intent \in Intents,
          how \in {"ok", "analyze_raises", "process_raises"} :
          LET known == id \in DOMAIN conversations
              registered == IF known THEN conversations
                            ELSE Put(conversations, id, NewConversation)
              counted == IF known THEN chat_ok ELSE Put(chat_ok, id, 0)
              state == [registered[id] EXCEPT !.current_step = "start"]
              invoked == process_intent(analyze_intent(state, intent), message)
          IN  /\ how = "analyze_raises" => intent = "greeting"
              /\ IF how = "ok"
                 THEN /\ conversations' = Put(registered, id, invoked)
                      /\ chat_ok' = Put(counted, id, counted[id] + 1)
                      /\ chat_response' = ChatAnswer(chat_response.n + 1, "chat", id, 200, message)
                 ELSE /\ conversations' = registered
                      /\ chat_ok' = counted
                      /\ chat_response' = ChatAnswer(chat_response.n + 1, "chat", id, 500, message)
    /\ ChatFrame

\* GET /conversations/{conversation_id}
GetConversationHistory ==
    /\ chat_response.n < MaxRequests
    /\ \E id \in ConversationIds :
          chat_response' = ChatAnswer(chat_response.n + 1, "get", id,
                                      IF id \in DOMAIN conversations THEN 200 ELSE 404, "")
    /\ UNCHANGED << conversations, chat_ok >>
    /\ ChatFrame

\* DELETE /conversations/{conversation_id}
ClearConversation ==
    /\ chat_response.n < MaxRequests
    /\ \E id \in ConversationIds :
          IF id \in DOMAIN conversations
          THEN /\ conversations' = Remove(conversations, id)
               /\ chat_ok' = Remove(chat_ok, id)
               /\ chat_response' = ChatAnswer(chat_response.n + 1, "clear", id, 200, "")
          ELSE /\ UNCHANGED << conversations, chat_ok >>
               /\ chat_response' = ChatAnswer(chat_response.n + 1, "clear", id, 404, "")
    /\ ChatFrame

ChatNext == ChatEndpoint \/ GetConversationHistory \/ ClearConversation

ChatSpec == ChatInit /\ [][ChatNext]_vars

\* the stored history of a conversation; none for an id that is not registered
History(registry, id) == IF id \in DOMAIN registry THEN registry[id].messages ELSE <<>>

\* the history is n pairs of a user message and an assistant message
PairedHistory ==
    \A id \in DOMAIN conversations :
        LET messages == conversations[id].messages
        IN  /\ Len(messages) = 2 * chat_ok[id]
            /\ \A k \in 1..chat_ok[id] :
                  /\ messages[2 * k - 1].role = "user"
                  /\ messages[2 * k].role = "assistant"

\* what a successful chat request does to the history of its conversation
AppendsTwo ==
    LET r == chat_response'
    IN  r # chat_response /\ r.op = "chat" /\ r.status = 200 =>
            /\ r.id \in DOMAIN conversations'
            /\ Len(History(conversations', r.id)) = Len(History(conversations, r.id)) + 2
            /\ SubSeq(History(conversations', r.id), 1, Len(History(conversations, r.id)))
                  = History(conversations, r.id)
            /\ History(conversations', r.id)[Len(History(conversations, r.id)) + 1]
                  = Message("user", r.message)
            /\ History(conversations', r.id)[Len(History(conversations, r.id)) + 2].role
                  = "assistant"

\* C37: a successful chat request appends the user's message and then the
\* assistant's answer to the stored history of its conversation and keeps
\* what was there, in order; after n successful requests since the
\* conversation was registered or last cleared its history holds 2n messages.
C37_ChatAppendsTwoMessages == [][AppendsTwo /\ PairedHistory']_vars

\* two successful requests of one conversation
C37_Witness ==
    /\ "default" \in DOMAIN conversations
    /\ chat_ok["default"] = 2
    /\ Len(conversations["default"].messages) = 4
    /\ chat_response.status = 200

\* C38: a chat request answered with 500 leaves the conversation registry as
\* it was; a failed first request of an id does not register it.
C38_FailedChatChangesNothing ==
    [][chat_response' # chat_response /\ chat_response'.op = "chat"
          /\ chat_response'.status = 500 => conversations' = conversations]_vars

\* ------------------------------------------------------------------------
\* EnhancedDeploymentPipeline.deploy_project_with_monitoring, run side by side
\* with deploy_project_with_auto_fix on the same stage outcomes: the plain
\* orchestrator makes a stage call, the monitored one then makes its next
\* call and is given what that stage returned to the plain one
\* ------------------------------------------------------------------------
\* DeploymentLogger.start_project_deployment
start_project_deployment ==
    [tracked |-> TRUE, attempts |-> 0, success |-> FALSE, errors_found |-> 0,
     fixes_applied |-> 0]

\* the attempt stored for the first iteration only
log_deployment_attempt_FirstOnly(metrics, k) ==
    IF metrics.tracked /\ k = 1 THEN [metrics EXCEPT !.attempts = k] ELSE metrics

\* DeploymentLogger.log_deployment_attempt
log_deployment_attempt(metrics, k) ==
    IF metrics.tracked THEN [metrics EXCEPT !.attempts = k] ELSE metrics

\* DeploymentLogger.log_error_analysis
log_error_analysis(metrics, errors_found) ==
    IF metrics.tracked THEN [metrics EXCEPT !.errors_found = errors_found] ELSE metrics

\* DeploymentLogger.log_fix_application
log_fix_application(metrics, fixes_successful) ==
    IF metrics.tracked THEN [metrics EXCEPT !.fixes_applied = fixes_successful] ELSE metrics

\* DeploymentLogger.finish_project_deployment
finish_project_deployment(metrics, success) ==
    IF metrics.tracked THEN [metrics EXCEPT !.success = success] ELSE metrics

\* the head of the loop of deploy_project_with_monitoring reached for
\* iteration k with the result r and the metrics m
MonLoopHead(k, r, m) ==
    IF k <= max_retry_attempts
    THEN /\ mon_attempt' = k
         /\ mon_result' = [r EXCEPT !.attempts = k]
         /\ mon_metrics' = log_deployment_attempt(m, k)
         /\ mon_pc' = "publish"
    ELSE /\ mon_attempt' = mon_attempt
         /\ mon_result' = r
         /\ mon_metrics' = m
         /\ mon_pc' = "done"

\* 'break'
MonBreak(r, m) ==
    /\ mon_attempt' = mon_attempt
    /\ mon_result' = r
    /\ mon_metrics' = m
    /\ mon_pc' = "done"

\* 'continue' written as 'break'
MonContinue_AsBreak(r, m) == MonBreak(r, m)

\* 'continue', and the end of the loop body
MonContinue(r, m) == MonLoopHead(mon_attempt + 1, r, m)

\* the monitored orchestrator has made every stage call the plain one has
InSync ==
    \/ pc = "idle" /\ mon_pc \in {"idle", "done", "returned"}
    \/ mon_pc # "idle" /\ mon_trace = trace

\* the stage call of the plain orchestrator the monitored one has not made
NextCall == trace[Len(mon_trace) + 1]

MonFrame ==
    /\ UNCHANGED pipeline_vars
    /\ UNCHANGED unit_vars
    /\ UNCHANGED << publish_vars, fetch_vars, wait_vars, build_vars, chat_vars >>

\* start_project_deployment, the new DeploymentResult and the loop head
MonStart ==
    /\ mon_pc = "idle"
    /\ pc # "idle"
    /\ mon_trace' = <<>>
    /\ mon_errors' = <<>>
    /\ MonLoopHead(1, NewResult, start_project_deployment)
    /\ MonFrame

\* self.pipeline._deploy_to_github and log_github_deployment
MonPublish ==
    /\ mon_pc = "publish"
    /\ Len(trace) > Len(mon_trace)
    /\ NextCall.stage = "publish"
    /\ LET github_success == NextCall.outcome = "ok"
       IN  IF ~github_success
           THEN /\ mon_trace' = Append(mon_trace, Call("publish", mon_attempt, "failed"))
                /\ MonContinue(mon_result, mon_metrics)
           ELSE /\ mon_trace' = Append(mon_trace, Call("publish", mon_attempt, "ok"))
                /\ mon_result' = [mon_result EXCEPT !.github_url = result.github_url]
                /\ mon_pc' = "snack"
                /\ UNCHANGED << mon_attempt, mon_metrics >>
    /\ UNCHANGED mon_errors
    /\ MonFrame

\* self.pipeline._deploy_to_snack and log_snack_deployment, followed on
\* success by the call of _check_deployment_errors
MonCreateSnack ==
    /\ mon_pc = "snack"
    /\ Len(trace) > Len(mon_trace)
    /\ NextCall.stage = "snack"
    /\ LET snack_success == NextCall.outcome = "ok"
       IN  IF ~snack_success
           THEN /\ mon_trace' = Append(mon_trace, Call("snack", mon_attempt, "failed"))
                /\ MonContinue(mon_result, mon_metrics)
           ELSE /\ mon_trace' = mon_trace \o << Call("snack", mon_attempt, "ok"),
                                                Call("poll", mon_attempt, "pending") >>
                /\ mon_result' = [mon_result EXCEPT !.snack_url = result.snack_url,
                                                    !.snack_id = result.snack_id]
                /\ mon_pc' = "poll"
                /\ UNCHANGED << mon_attempt, mon_metrics >>
    /\ UNCHANGED mon_errors
    /\ MonFrame

\* _check_deployment_errors returns what it returned to the plain orchestrator
MonPoll ==
    /\ mon_pc = "poll"
    /\ Len(trace) = Len(mon_trace)
    /\ trace[Len(trace)].stage = "poll"
    /\ trace[Len(trace)].outcome # "pending"
    /\ mon_trace[Len(mon_trace)].outcome = "pending"
    /\ LET deployment_success == trace[Len(trace)].outcome = "ok"
       IN  /\ mon_trace' = SetLast(mon_trace, trace[Len(trace)].outcome)
           /\ mon_errors' = errors
           /\ IF deployment_success
              THEN MonBreak([mon_result EXCEPT !.success = TRUE],
                            log_error_analysis(mon_metrics, 0))
              ELSE /\ mon_pc' = "analyze"
                   /\ UNCHANGED << mon_attempt, mon_result, mon_metrics >>
    /\ MonFrame

\* analyze_deployment_errors(errors), log_error_analysis, log_error_details
\* and 'if analysis['auto_fixable_errors'] == 0: break'
MonAnalyze ==
    /\ mon_pc = "analyze"
    /\ Len(trace) > Len(mon_trace)
    /\ NextCall.stage = "analyze"
    /\ IF AnalysisRaises(mon_errors)
       THEN /\ mon_trace' = Append(mon_trace, Call("analyze", mon_attempt, "raised"))
            /\ mon_pc' = "raised"
            /\ UNCHANGED << mon_attempt, mon_result, mon_metrics >>
       ELSE LET analysis == analyze_deployment_errors(mon_errors)
                r == [mon_result EXCEPT !.errors = analysis.parsed_errors]
                m == log_error_analysis(mon_metrics, analysis.total_errors)
            IN  /\ mon_trace' = Append(mon_trace, Call("analyze", mon_attempt, "analyzed"))
                /\ IF analysis.auto_fixable_errors = 0
                   THEN MonBreak(r, m)
                   ELSE /\ mon_result' = r
                        /\ mon_metrics' = m
                        /\ mon_pc' = "fix"
                        /\ UNCHANGED mon_attempt
    /\ mon_errors' = <<>>
    /\ MonFrame

\* self.pipeline._apply_auto_fixes returns what it returned to the plain
\* orchestrator; log_fix_application and 'if successful_fixes == 0: break'
MonApplyFixes ==
    /\ mon_pc = "fix"
    /\ Len(trace) > Len(mon_trace)
    /\ NextCall.stage = "fix"
    /\ FixKeys(mon_result.errors) \subseteq DOMAIN result.fixes_applied
    /\ LET fixes_applied == [k \in FixKeys(mon_result.errors) |-> result.fixes_applied[k]]
           r == [mon_result EXCEPT !.fixes_applied = Update(@, fixes_applied)]
           successful_fixes == Successful(fixes_applied)
           m == log_fix_application(mon_metrics, successful_fixes)
       IN  /\ mon_trace' = Append(mon_trace, Call("fix", mon_attempt, "applied"))
           /\ IF successful_fixes = 0 THEN MonBreak(r, m) ELSE MonContinue(r, m)
    /\ UNCHANGED mon_errors
    /\ MonFrame

\* finish_project_deployment(project_name, result.success) and 'return result'
MonReturn ==
    /\ mon_pc = "done"
    /\ mon_metrics' = finish_project_deployment(mon_metrics, mon_result.success)
    /\ mon_pc' = "returned"
    /\ UNCHANGED << mon_attempt, mon_result, mon_errors, mon_trace >>
    /\ MonFrame

PlainStartBatch == InSync /\ StartBatch
PlainStartProject == InSync /\ StartProject
PlainPublish == InSync /\ Publish
PlainCreateSnack == InSync /\ CreateSnack
PlainPoll == InSync /\ Poll
PlainPollTimesOut == InSync /\ PollTimesOut
PlainAnalyze == InSync /\ Analyze
PlainApplyFixes == InSync /\ ApplyFixes
PlainReturnResult == InSync /\ ReturnResult
PlainFinishBatch == InSync /\ FinishBatch

MonitorNext ==
    \/ PlainStartBatch
    \/ PlainStartProject
    \/ PlainPublish
    \/ PlainCreateSnack
    \/ PlainPoll
    \/ PlainPollTimesOut
    \/ PlainAnalyze
    \/ PlainApplyFixes
    \/ PlainReturnResult
    \/ PlainFinishBatch
    \/ MonStart
    \/ MonPublish
    \/ MonCreateSnack
    \/ MonPoll
    \/ MonAnalyze
    \/ MonApplyFixes
    \/ MonReturn

MonitorSpec == Init /\ [][MonitorNext]_vars

\* the fields of a DeploymentResult the comparison is about
Compared(r) ==
    [success |-> r.success, attempts |-> r.attempts, github_url |-> r.github_url,
     snack_url |-> r.snack_url, errors |-> r.errors, fixes_applied |-> r.fixes_applied]

\* the monitored orchestrator has yet to make the last call of the plain one
OneCallBehind ==
    \/ /\ Len(trace) > Len(mon_trace)
       /\ SubSeq(trace, 1, Len(mon_trace)) = mon_trace
       /\ NextCall.stage = mon_pc
       /\ NextCall.attempt = mon_attempt
       /\ Len(trace) = Len(mon_trace) + (IF NextCall = Call("snack", mon_attempt, "ok")
                                         THEN 2 ELSE 1)
    \/ /\ Len(trace) = Len(mon_trace)
       /\ Len(trace) > 0
       /\ mon_pc = "poll"
       /\ mon_trace = SetLast(trace, "pending")

\* C40: given the same max attempts and, call by call, what the stages
\* returned to the plain orchestrator, the monitored orchestrator makes the
\* same stage calls in the same order with the same loop state, ends where
\* the plain one ends (returned or left by the exception of the analysis)
\* with a result equal in success, attempts, github_url, snack_url, errors and
\* fixes_applied, and the logger's metrics hold the result's attempts and
\* success.
C40_MonitoredRefinesPlain ==
    /\ mon_pc \in {"idle", "publish", "snack", "poll", "analyze", "fix", "done",
                   "raised", "returned"}
    /\ mon_pc = "idle" => mon_trace = <<>>
    /\ mon_pc # "idle" =>
          /\ mon_trace = trace \/ OneCallBehind
          /\ mon_metrics.tracked
          /\ mon_metrics.attempts = mon_result.attempts
          /\ mon_trace = trace =>
                /\ Compared(mon_result) = Compared(result)
                /\ mon_result.snack_id = result.snack_id
                /\ mon_pc \in {"publish", "snack", "poll", "analyze", "fix", "raised"} =>
                      mon_pc = pc /\ mon_attempt = attempt /\ mon_errors = errors
                /\ mon_pc \in {"done", "returned"} => pc \in {"done", "idle"}
                /\ pc \in {"done", "raised"} => mon_pc \in {"done", "raised", "returned"}
    /\ mon_pc = "returned" =>
          /\ mon_metrics.success = mon_result.success
          /\ mon_metrics.attempts = mon_result.attempts

\* both orchestrators have returned after a second attempt that followed fixes
C40_Witness ==
    /\ mon_pc = "returned"
    /\ pc = "idle"
    /\ batch_pc = "returned"
    /\ mon_trace = trace
    /\ mon_metrics.attempts = 2
    /\ mon_metrics.success
    /\ results[Projects[1]].success
    /\ DOMAIN mon_result.fixes_applied # {}

====
